---- MODULE Spec2Model ----
(***************************************************************************)
(* legoHDL: version handling, the installation cache of one block, the     *)
(* block registry with its requirement graph, the release workflow and the *)
(* unit graph with its topological sort.                                   *)
(*                                                                         *)
(* Text values of the program (versions, titles, directory names) are      *)
(* sequences of one-character strings, so that parsing, formatting,        *)
(* slicing and lower-casing are computed as the code computes them.        *)
(* Indices in the text operators are Python's (0-based, -1 for not found). *)
(***************************************************************************)
EXTENDS Integers, Sequences, FiniteSets, TLC

\* ------------------------------------------------------------------ bounds

\* highest number of version tags the released block gets
MaxReleases == 2
\* highest number of operations on the unit graph before it is sorted
MaxGraphOps == 4
\* highest number of blocks made or deleted while one workspace is loaded
MaxRegOps == 4
\* highest number of calls made on the installation cache of one block
MaxCacheOps == 4
\* highest number in a version that is written out and read back
MaxPart == 11

\* ------------------------------------------------------------ text helpers

Min(a, b) == IF a < b THEN a ELSE b

Max(a, b) == IF a < b THEN b ELSE a

\* s[a:b] of Python: negative indices count from the end, out-of-range clips
PySlice(s, a, b) ==
    LET n  == Len(s)
        lo == IF a < 0 THEN Max(a + n, 0) ELSE Min(a, n)
        hi == IF b < 0 THEN Max(b + n, 0) ELSE Min(b, n)
    IN  IF lo >= hi THEN <<>> ELSE SubSeq(s, lo + 1, hi)

\* s.find(c): lowest 0-based index of the character c, -1 when absent
Find(s, c) ==
    IF \E i \in 1..Len(s) : s[i] = c
    THEN (CHOOSE i \in 1..Len(s) : s[i] = c /\ \A j \in 1..(i-1) : s[j] # c) - 1
    ELSE -1

\* s.rfind(c): highest 0-based index of the character c, -1 when absent
RFind(s, c) ==
    IF \E i \in 1..Len(s) : s[i] = c
    THEN (CHOOSE i \in 1..Len(s) : s[i] = c /\ \A j \in (i+1)..Len(s) : s[j] # c) - 1
    ELSE -1

\* s.replace(a, b) for single characters
Replace(s, a, b) == [i \in 1..Len(s) |-> IF s[i] = a THEN b ELSE s[i]]

RECURSIVE Split(_, _)
\* s.split(c)
Split(s, c) ==
    LET i == Find(s, c)
    IN  IF i = -1 THEN <<s>>
        ELSE <<PySlice(s, 0, i)>> \o Split(PySlice(s, i + 1, Len(s)), c)

RECURSIVE listToStr(_, _)
\* the items of a list joined by a delimiter
listToStr(lst, delim) ==
    IF Len(lst) = 0 THEN <<>>
    ELSE IF Len(lst) = 1 THEN lst[1]
    ELSE lst[1] \o delim \o listToStr(Tail(lst), delim)

UpperChars == <<"A", "B", "C", "L", "V", "D", "H">>

LowerChars == <<"a", "b", "c", "l", "v", "d", "h">>

\* c.lower() on the alphabet of the model
LowerChar(c) ==
    IF \E i \in 1..Len(UpperChars) : UpperChars[i] = c
    THEN LowerChars[CHOOSE i \in 1..Len(UpperChars) : UpperChars[i] = c]
    ELSE c

\* s.lower()
Lower(s) == [i \in 1..Len(s) |-> LowerChar(s[i])]

DigitChars == <<"0", "1", "2", "3", "4", "5", "6", "7", "8", "9">>

IsDigit(c) == \E i \in 1..10 : DigitChars[i] = c

DigitVal(c) == (CHOOSE i \in 1..10 : DigitChars[i] = c) - 1

\* p.isdecimal(): non-empty and only decimal digits
isdecimal(s) == Len(s) > 0 /\ \A i \in 1..Len(s) : IsDigit(s[i])

RECURSIVE DecVal(_)
DecVal(s) == IF Len(s) = 0 THEN 0
             ELSE 10 * DecVal(SubSeq(s, 1, Len(s) - 1)) + DigitVal(s[Len(s)])

\* int(s) inside try/except: the value, or the except-branch default 0
IntOrZero(s) == IF isdecimal(s) THEN DecVal(s) ELSE 0

RECURSIVE str(_)
\* str(n) of a non-negative integer
str(n) == IF n < 10 THEN <<DigitChars[n + 1]>>
          ELSE str(n \div 10) \o <<DigitChars[(n % 10) + 1]>>

\* ------------------------------------------------------------- VersionSpec

\* if(rm_v and len(ver) and ver[0] == 'v'): ver = ver[1:]
RmV(ver, rm_v) == IF rm_v /\ Len(ver) > 0 /\ ver[1] = "v" THEN Tail(ver) ELSE ver

\* if(add_v and len(ver) and ver[0] != 'v'): ver = 'v' + ver
AddV(ver, add_v) ==
    IF add_v /\ Len(ver) > 0 /\ ver[1] # "v" THEN <<"v">> \o ver ELSE ver

\* if(len(ver) and ver[-1] == '.'): ver = ver[:len(ver)-1]
RmDot(ver) ==
    IF Len(ver) > 0 /\ ver[Len(ver)] = "." THEN PySlice(ver, 0, Len(ver) - 1) ELSE ver

\* '.0'*diff
ZeroParts(diff) ==
    IF diff >= 2 THEN <<".", "0", ".", "0">>
    ELSE IF diff = 1 THEN <<".", "0">> ELSE <<>>

\* if(z_ext): ver = ver + '.0'*diff, diff being 3 - len(ver.split('.'))
ZExt(ver, z_ext) ==
    IF z_ext THEN ver \o ZeroParts(3 - Len(Split(ver, "."))) ELSE ver

\* Block.stdVer(ver, add_v, rm_v, z_ext)
stdVer(ver, add_v, rm_v, z_ext) ==
    ZExt(RmDot(AddV(RmV(Replace(ver, "_", "."), rm_v), add_v)), z_ext)

\* the three numbers, the last one read from the first dot on
NumbersFromFirstDot(ver, first_dot, last_dot) ==
    << IntOrZero(PySlice(ver, 0, first_dot)),
       IntOrZero(PySlice(ver, first_dot + 1, last_dot)),
       IntOrZero(PySlice(ver, first_dot + 1, Len(ver))) >>

\* the three numbers of a standardized text without its 'v'
Numbers(ver, first_dot, last_dot) ==
    << IntOrZero(PySlice(ver, 0, first_dot)),
       IntOrZero(PySlice(ver, first_dot + 1, last_dot)),
       IntOrZero(PySlice(ver, last_dot + 1, Len(ver))) >>

\* Block.sepVer from its second statement on, ver being standardized
SepStd(ver) ==
    IF ver = <<>> THEN <<0, 0, 0>>
    ELSE IF ver[1] = "v" THEN Numbers(Tail(ver), Find(Tail(ver), "."), RFind(Tail(ver), "."))
    ELSE Numbers(ver, Find(ver, "."), RFind(ver, "."))

\* Block.sepVer(ver): the (major, minor, patch) the code reads out of a text
sepVer(ver) == SepStd(stdVer(ver, FALSE, FALSE, FALSE))

\* numeric order on (major, minor, patch)
TripleLess(x, y) ==
    \/ x[1] < y[1]
    \/ x[1] = y[1] /\ x[2] < y[2]
    \/ x[1] = y[1] /\ x[2] = y[2] /\ x[3] < y[3]

\* the comparisons of cmpVer without the tests that the higher parts are equal
NotAboveAnyPart(l, r) ==
    \/ l[1] < r[1]
    \/ l[2] < r[2]
    \/ l[3] <= r[3]

\* the three comparisons of Block.cmpVer on (l1,l2,l3) and (r1,r2,r3)
NotAbove(l, r) ==
    \/ l[1] < r[1]
    \/ l[1] = r[1] /\ l[2] < r[2]
    \/ l[1] = r[1] /\ l[2] = r[2] /\ l[3] <= r[3]

\* the branch of cmpVer that returns lver where it should return rver
cmpVerNoTie(lver, rver) ==
    IF TripleLess(sepVer(lver), sepVer(rver)) THEN rver ELSE lver

\* Block.cmpVer(lver, rver): the higher of the two, rver when they are equal
cmpVer(lver, rver) ==
    IF NotAbove(sepVer(lver), sepVer(rver)) THEN rver ELSE lver

\* parts[0] without a leading 'v' or 'V'
NoV(part) ==
    IF Len(part) > 0 /\ LowerChar(part[1]) = "v" THEN Tail(part) ELSE part

\* Block.validVer from the split on, parts being ver.split('.')
ValidParts(parts, places) ==
    /\ Len(parts) \in places
    /\ isdecimal(NoV(parts[1]))
    /\ \A i \in 2..Len(parts) : isdecimal(parts[i])

\* Block.validVer(ver, places)
validVer(ver, places) ==
    ValidParts(Split(stdVer(ver, FALSE, FALSE, FALSE), "."), places)

\* 'v'+str(p_maj)+'.'+str(p_min)+'.'+str(p_fix)
VerText(a, b, c) == <<"v">> \o str(a) \o <<".">> \o str(b) \o <<".">> \o str(c)

\* --------------------------------------------------------------------- Map
\* A Map is a dict that keeps its keys in insertion order and stores every key
\* lower-cased: a sequence of <<key, value>> pairs.

\* the form in which a Map stores and looks up a key
MapKey(k) == Lower(k)

\* list(m.keys()): the stored keys, in insertion order
MapKeys(m) == [i \in 1..Len(m) |-> m[i][1]]

\* x in <list>
InSeq(x, lst) == \E i \in 1..Len(lst) : lst[i] = x

\* m[k], for a key the Map holds
MapGet(m, k) == m[CHOOSE i \in 1..Len(m) : m[i][1] = MapKey(k)][2]

\* m[k] = v
MapPut(m, k, v) ==
    IF InSeq(MapKey(k), MapKeys(m))
    THEN [i \in 1..Len(m) |-> IF m[i][1] = MapKey(k) THEN <<m[i][1], v>> ELSE m[i]]
    ELSE Append(m, <<MapKey(k), v>>)

\* ------------------------------------------------------------------- Graph
\* A graph is a record [adj, rev] of two Maps: _adj_list and _rev_adj_list.

\* Graph.__init__ / Graph.clear
EmptyGraph == [adj |-> <<>>, rev |-> <<>>]

\* Graph.addVertex(u)
addVertex(g, u) ==
    [adj |-> IF ~InSeq(u, MapKeys(g.adj)) THEN MapPut(g.adj, u, <<>>) ELSE g.adj,
     rev |-> IF ~InSeq(u, MapKeys(g.rev)) THEN MapPut(g.rev, u, <<>>) ELSE g.rev]

\* the two appends of addEdge without their tests
ConnectAgain(g, integral, derivative) ==
    [adj |-> MapPut(g.adj, integral, Append(MapGet(g.adj, integral), derivative)),
     rev |-> MapPut(g.rev, derivative, Append(MapGet(g.rev, derivative), integral))]

\* Graph.addEdge once both vertices are in the graph
Connect(g, integral, derivative) ==
    [adj |-> IF ~InSeq(derivative, MapGet(g.adj, integral))
             THEN MapPut(g.adj, integral, Append(MapGet(g.adj, integral), derivative))
             ELSE g.adj,
     rev |-> IF ~InSeq(integral, MapGet(g.rev, derivative))
             THEN MapPut(g.rev, derivative, Append(MapGet(g.rev, derivative), integral))
             ELSE g.rev]

\* Graph.addEdge(integral, derivative)
addEdge(g, integral, derivative) ==
    Connect(addVertex(addVertex(g, integral), derivative), integral, derivative)

\* del m[k], for a key the Map holds
MapDel(m, k) == SelectSeq(m, LAMBDA p : p[1] # MapKey(k))

\* list.remove(x), for an x the list holds: drops the first occurrence
Remove(lst, x) ==
    LET i == CHOOSE j \in 1..Len(lst) : lst[j] = x /\ \A h \in 1..(j - 1) : lst[h] # x
    IN  SubSeq(lst, 1, i - 1) \o SubSeq(lst, i + 1, Len(lst))

\* Graph.removeVertex(u)
removeVertex(g, u) ==
    [adj |-> IF InSeq(u, MapKeys(g.adj)) THEN MapDel(g.adj, u) ELSE g.adj,
     rev |-> IF InSeq(u, MapKeys(g.rev)) THEN MapDel(g.rev, u) ELSE g.rev]

\* "if(x in self._adj_list[k]): self._adj_list[k].remove(x)", k being a key
Unlist(adj, k, x) ==
    IF InSeq(x, MapGet(adj, k)) THEN MapPut(adj, k, Remove(MapGet(adj, k), x)) ELSE adj

\* Graph.removeEdge(integral, derivative): both statements read _adj_list, and
\* reading it at a key it does not hold raises KeyError
removeEdge(g, integral, derivative) ==
    IF ~InSeq(integral, MapKeys(g.adj)) THEN [g |-> g, raised |-> TRUE]
    ELSE IF ~InSeq(derivative, MapKeys(g.adj))
    THEN [g |-> [g EXCEPT !.adj = Unlist(g.adj, integral, derivative)], raised |-> TRUE]
    ELSE [g |-> [g EXCEPT !.adj = Unlist(Unlist(g.adj, integral, derivative),
                                         derivative, integral)],
          raised |-> FALSE]

\* Graph.getNeighbors(vertex, upstream)
getNeighbors(g, vertex, upstream) ==
    LET adj == IF upstream THEN g.rev ELSE g.adj
    IN  IF InSeq(vertex, MapKeys(adj)) THEN MapGet(adj, vertex) ELSE <<>>

\* Graph.getVertices()
getVertices(g) == MapKeys(g.adj)

\* ===================================================================== state
VARIABLES
    cache,      \* disk: pin directory name -> 'version' of its metadata, NoVer when absent
    head,       \* disk: what the INSTALLED copy has checked out (NoVer: its latest commit)
    writable,   \* disk: write permission of the INSTALLED copy's files
    instls,     \* memory: the record's _instls map, key -> 'version' of the Block loaded for it
    lvls,       \* memory: Block.Inventory[M][L][N], one flag per level slot (occupied or None)
    nops,       \* number of calls made on the installation cache so far
    main,       \* disk: 'version' of the block's main installation, NoVer when it has none
    status,     \* "run", or "crashed" after an exception no handler caught
    op,         \* the last call and how it ended
    allOk,      \* every install call so far returned a block
    tracking,   \* memory: the list that is installReqs' default for 'tracking'
    \* --- the unit graph and the run of its topologicalSort
    UnitHierarchy, \* Unit.Hierarchy: the graph of design units
    gops,       \* number of addVertex/addEdge calls made on it
    tpc,        \* position of topologicalSort: "build" (not called), "while", "for",
                \* "after" (loop left), "returned", "fatal" (exit); "raised" after
                \* an exception left a call on the graph
    order,      \* topologicalSort's order
    block_order,\* topologicalSort's block_order
    nghbr_cnt,  \* topologicalSort's nghbr_cnt (a Map)
    \* --- the block registry and the release of the current block
    Inventory,  \* Block.Inventory: Map vendor -> Map library -> Map name -> level slots
    Hierarchy,  \* Block.Hierarchy: the graph of block identifiers
    world,      \* the blocks on disk this run was started on
    regOp,      \* the last registry call and how it ended
    cmds,       \* number of commands run since the workspace was loaded
    nreg,       \* number of blocks made or deleted since the run started
    repoTags,   \* disk: the version tags of the current block's repository, oldest first
    metaVersion,\* disk: 'version' in the current block's metadata file
    commits,    \* disk: number of release commits made
    pushes,     \* number of pushes made
    cacheLatest,\* disk: version of the current block's main installation, NoVer when none
    rel,        \* the last release call: its arguments, what it saw and how it ended
    \* --- calls of functions that keep no state
    call        \* the last call: its name, its arguments and what it gave

cacheVars == <<cache, head, writable, instls, lvls, main, nops, status, op, allOk,
               tracking>>

graphVars == <<UnitHierarchy, gops, tpc, order, block_order, nghbr_cnt>>

regVars == <<Inventory, Hierarchy, world, regOp, cmds, nreg, repoTags, metaVersion,
             commits, pushes, cacheLatest, rel>>

callVars == <<call>>

vars == <<cacheVars, graphVars, regVars, callVars>>

\* Block.Level
DNLD == 0

INSTL == 1

AVAIL == 2

VER == 3

\* ===================================================== the installation cache
\* One block with an INSTALLED record: its cache directories on disk, the
\* record's in-memory map of pins, and the calls of one command invocation
\* after another.  The block itself requires no other block.

\* no directory / no key
NoVer == <<>>

\* the INSTALLED record's _tags: the tagged versions of its repository
Tags == { VerText(1, 0, 0), VerText(1, 0, 1), VerText(1, 1, 0), VerText(2, 0, 0) }

\* the 'version' field of the metadata committed at a tag; the tag v2.0.0
\* was cut by hand on a commit whose metadata still says 1.1.0
MetaAtTag(tag) == IF tag = VerText(2, 0, 0) THEN Tail(VerText(1, 1, 0)) ELSE Tail(tag)

\* apt.listToStr(ver.split('.')[:places], delim='.')
SubVer(ver, places) ==
    LET parts == Split(ver, ".")
    IN  listToStr(SubSeq(parts, 1, Min(places, Len(parts))), <<".">>)

\* the directory names a pin of a tagged version can have
PinNames == { SubVer(t, p) : t \in Tags, p \in 1..3 }

PartialPins == { SubVer(t, p) : t \in Tags, p \in 1..2 }

latest == <<"l", "a", "t", "e", "s", "t">>

\* the keys the _instls map of the INSTALLED record can hold: uninstall(None)
\* puts the record itself in it under 'latest'
MapNames == PinNames \cup {latest}

\* getInstalls() of a record made on the cache c: one key per pin directory
Scanned(c) == [k \in MapNames |-> IF k = latest THEN NoVer ELSE c[k]]

\* what a caller may pass to install(ver)
InstallInputs == Tags \cup { Tail(VerText(1, 0, 1)), VerText(3, 0, 0) }

\* Block.delete() of a pin of a block whose level slots are l: asks when the
\* block sits at one level only
delete(l, c, k, yes) ==
    LET empty == Cardinality({ i \in 1..3 : ~l[i] })
        asks  == empty = 3 - 1
    IN  IF asks /\ ~yes THEN c ELSE [c EXCEPT ![k] = NoVer]

\* installPartialVersion from the checkout on: c1 is the cache after the
\* standing pin, if any, was deleted
CopyVersion(s, c1, sub_ver, ver) ==
    \* git checkout tags/ver, then shutil.copytree onto an existing directory raises
    IF c1[sub_ver] # NoVer
    THEN [s EXCEPT !.cache = c1, !.head = ver, !.crashed = TRUE, !.ret = FALSE]
    \* copied, checked out back, found corrupt: the copy is removed
    ELSE IF Tail(ver) # MetaAtTag(ver)
    THEN [s EXCEPT !.cache = c1, !.ret = FALSE]
    ELSE [s EXCEPT !.cache = [c1 EXCEPT ![sub_ver] = MetaAtTag(ver)], !.ret = TRUE]

\* installPartialVersion once sub_ver is known; the map of the record r answers
\* "sub_ver in self.getInstalls(returnvers=True)" and gives the standing block
UpdateSubVersion(s, r, ver, sub_ver, yes) ==
    IF r.instls[sub_ver] # NoVer
    THEN IF cmpVer(ver, r.instls[sub_ver]) = r.instls[sub_ver]
         THEN [s EXCEPT !.ret = FALSE]
         ELSE CopyVersion(s, delete(r.lvls, s.cache, sub_ver, yes), sub_ver, ver)
    ELSE CopyVersion(s, s.cache, sub_ver, ver)

\* Block.installPartialVersion(ver, places) of the record r on the working
\* state s of a call; yes answers the prompt of delete(), should it ask
installPartialVersion(s, r, ver, places, yes) ==
    IF s.crashed THEN s ELSE UpdateSubVersion(s, r, ver, SubVer(ver, places), yes)

\* the INSTALLED record as a call finds it: its _instls map and the level
\* slots of its block
Record == [instls |-> instls, lvls |-> lvls]

\* the disk as a call of install finds it
Disk == [cache |-> cache, head |-> head, writable |-> writable,
         crashed |-> FALSE, ret |-> FALSE]

\* how a call of install ends: its result, the disk it leaves, the run's status
Ends(s, result, w, st) ==
    [result |-> result, cache |-> s.cache, head |-> s.head, writable |-> w, status |-> st]

\* install after the two partial versions were tried
AfterPartials(s2) ==
    IF s2.crashed THEN Ends(s2, "crash", TRUE, "crashed")
    ELSE Ends(s2, "installed", FALSE, status)

\* install after installPartialVersion(ver, places=3)
AfterFull(s3, r, ver, yes1, yes2) ==
    IF s3.crashed THEN Ends(s3, "crash", TRUE, "crashed")
    ELSE IF ~s3.ret THEN Ends(s3, "corrupt", TRUE, status)
    ELSE AfterPartials(installPartialVersion(installPartialVersion(s3, r, ver, 1, yes1),
                                             r, ver, 2, yes2))

\* Block.install(ver) of the INSTALLED record r on the disk d, ver with its 'v'
InstallVersion(r, d, ver, yes1, yes2) ==
    IF ver \notin Tags THEN Ends(d, "missing", d.writable, status)
    ELSE IF r.instls[ver] # NoVer THEN Ends(d, "already", d.writable, status)
    ELSE AfterFull(installPartialVersion(d, r, ver, 3, TRUE), r, ver, yes1, yes2)

\* the state a call of install(ver) leaves
Installed(ver, end) ==
    /\ op' = [name |-> "install", ver |-> ver, result |-> end.result]
    /\ cache' = end.cache
    /\ head' = end.head
    /\ writable' = end.writable
    /\ status' = end.status
    /\ allOk' = (allOk /\ end.result = "installed")

\* Block.install(ver) on the INSTALLED record
install(v, yes1, yes2) ==
    /\ status = "run"
    /\ nops < MaxCacheOps
    /\ nops' = nops + 1
    /\ lvls[INSTL + 1]
    /\ Installed(stdVer(v, TRUE, FALSE, FALSE),
                 InstallVersion(Record, Disk, stdVer(v, TRUE, FALSE, FALSE), yes1, yes2))
    /\ UNCHANGED <<instls, lvls, main, tracking>>
    /\ UNCHANGED <<graphVars, regVars, callVars>>

\* the next command invocation: Block.__init__ of the INSTALLED record scans
\* the cache directories into a new _instls map (getInstalls)
NewInvocation(dnld, avail) ==
    /\ dnld \/ avail \/ main # NoVer
    /\ nops < MaxCacheOps
    /\ nops' = nops + 1
    /\ instls' = IF main # NoVer THEN Scanned(cache) ELSE [k \in MapNames |-> NoVer]
    /\ lvls' = <<dnld, main # NoVer, avail>>
    /\ status' = "run"
    /\ op' = [name |-> "load", ver |-> NoVer, result |-> "loaded"]
    /\ tracking' = <<>>
    /\ UNCHANGED <<cache, head, writable, main, allOk>>
    /\ UNCHANGED <<graphVars, regVars, callVars>>

\* ============================================================ the unit graph
\* Unit.Hierarchy is filled while the units of the design are read
\* (addVertex, addEdge) and then sorted; topologicalSort is followed loop
\* test by loop test.

\* the design units (Unit objects) and the block that owns each one's file
Units == { <<"u", "1">>, <<"u", "2">>, <<"u", "3">> }

\* unit.getLanguageFile().getOwner()
Owner(u) == IF u = <<"u", "2">> THEN "B" ELSE "A"

RECURSIVE DecrementAll(_, _, _, _)
\* the decrement without its test: every count goes down
DecrementAll(g, cnt, unit, j) ==
    IF j > Len(g.adj) THEN cnt
    ELSE LET k == g.adj[j][1]
         IN  DecrementAll(g, MapPut(cnt, k, MapGet(cnt, k) - 1), unit, j + 1)

RECURSIVE Decrement(_, _, _, _)
\* for k in self._adj_list.keys(): if unit in self._adj_list[k]: nghbr_cnt[k] -= 1

Decrement(g, cnt, unit, j) ==
    IF j > Len(g.adj) THEN cnt
    ELSE LET k == g.adj[j][1]
         IN  Decrement(g, IF InSeq(unit, MapGet(g.adj, k))
                          THEN MapPut(cnt, k, MapGet(cnt, k) - 1) ELSE cnt,
                       unit, j + 1)

\* one pass of "for unit in nghbr_cnt.keys()" from the i-th key on, on the
\* working lists st = [order, block_order, nghbr_cnt]
RECURSIVE Sweep(_, _, _)

Sweep(g, st, i) ==
    IF i > Len(st.nghbr_cnt) THEN st
    ELSE LET unit == st.nghbr_cnt[i][1]
         IN  IF st.nghbr_cnt[i][2] = 0
             THEN Sweep(g,
                        [order |-> Append(st.order, unit),
                         block_order |-> IF ~InSeq(Owner(unit), st.block_order)
                                         THEN Append(st.block_order, Owner(unit))
                                         ELSE st.block_order,
                         nghbr_cnt |-> Decrement(g, MapPut(st.nghbr_cnt, unit, -1), unit, 1)],
                        i + 1)
             ELSE Sweep(g, st, i + 1)

\* the tail of topologicalSort that leaves block_order as the loop built it
FinishUnmoved(bo, ord) == bo

\* the tail of topologicalSort: the owner of the last unit goes last
Finish(bo, ord) ==
    LET last == Owner(ord[Len(ord)])
    IN  Append(Remove(bo, last), last)

\* Unit.Hierarchy.addVertex(u)
AddVertex(u) ==
    /\ tpc = "build"
    /\ gops < MaxGraphOps
    /\ UnitHierarchy' = addVertex(UnitHierarchy, u)
    /\ gops' = gops + 1
    /\ UNCHANGED <<tpc, order, block_order, nghbr_cnt>>
    /\ UNCHANGED <<cacheVars, regVars, callVars>>

\* Unit.Hierarchy.addEdge(integral, derivative)
AddEdge(integral, derivative) ==
    /\ tpc = "build"
    /\ gops < MaxGraphOps
    /\ UnitHierarchy' = addEdge(UnitHierarchy, integral, derivative)
    /\ gops' = gops + 1
    /\ UNCHANGED <<tpc, order, block_order, nghbr_cnt>>
    /\ UNCHANGED <<cacheVars, regVars, callVars>>

\* Unit.Hierarchy.removeVertex(u), as Unit.setChecked(False) calls it
RemoveVertex(u) ==
    /\ tpc = "build"
    /\ gops < MaxGraphOps
    /\ UnitHierarchy' = removeVertex(UnitHierarchy, u)
    /\ gops' = gops + 1
    /\ UNCHANGED <<tpc, order, block_order, nghbr_cnt>>
    /\ UNCHANGED <<cacheVars, regVars, callVars>>

\* Unit.Hierarchy.removeEdge(integral, derivative)
RemoveEdge(integral, derivative) ==
    /\ tpc = "build"
    /\ gops < MaxGraphOps
    /\ UnitHierarchy' = removeEdge(UnitHierarchy, integral, derivative).g
    /\ tpc' = IF removeEdge(UnitHierarchy, integral, derivative).raised
              THEN "raised" ELSE tpc
    /\ gops' = gops + 1
    /\ UNCHANGED <<order, block_order, nghbr_cnt>>
    /\ UNCHANGED <<cacheVars, regVars, callVars>>

\* topologicalSort is called: the lists are set up and the counts taken
TopoStart ==
    /\ tpc = "build"
    /\ tpc' = "while"
    /\ order' = <<>>
    /\ block_order' = <<>>
    /\ nghbr_cnt' = [j \in 1..Len(UnitHierarchy.adj) |->
                        <<UnitHierarchy.adj[j][1], Len(UnitHierarchy.adj[j][2])>>]
    /\ UNCHANGED <<UnitHierarchy, gops>>
    /\ UNCHANGED <<cacheVars, regVars, callVars>>

\* while len(order) < len(self._adj_list)
TopoWhile ==
    /\ tpc = "while"
    /\ tpc' = IF Len(order) < Len(UnitHierarchy.adj) THEN "for" ELSE "after"
    /\ UNCHANGED <<UnitHierarchy, gops, order, block_order, nghbr_cnt>>
    /\ UNCHANGED <<cacheVars, regVars, callVars>>

\* the body of the while loop: one pass over nghbr_cnt
TopoFor ==
    /\ tpc = "for"
    /\ LET st == Sweep(UnitHierarchy,
                       [order |-> order, block_order |-> block_order,
                        nghbr_cnt |-> nghbr_cnt], 1)
       IN  /\ order' = st.order
           /\ block_order' = st.block_order
           /\ nghbr_cnt' = st.nghbr_cnt
    /\ tpc' = "while"
    /\ UNCHANGED <<UnitHierarchy, gops>>
    /\ UNCHANGED <<cacheVars, regVars, callVars>>

\* the end of a sort that returns whatever the loop built
TopoFinishReturns ==
    /\ tpc = "after"
    /\ tpc' = "returned"
    /\ block_order' = IF Len(block_order) = 0 THEN block_order
                      ELSE Finish(block_order, order)
    /\ UNCHANGED <<UnitHierarchy, gops, order, nghbr_cnt>>
    /\ UNCHANGED <<cacheVars, regVars, callVars>>

\* after the loop: exit on an empty block order, else fix the tail and return
TopoFinish ==
    /\ tpc = "after"
    /\ IF Len(block_order) = 0
       THEN tpc' = "fatal" /\ UNCHANGED block_order
       ELSE tpc' = "returned" /\ block_order' = Finish(block_order, order)
    /\ UNCHANGED <<UnitHierarchy, gops, order, nghbr_cnt>>
    /\ UNCHANGED <<cacheVars, regVars, callVars>>

\* Unit.resetHierarchy() after a sort, or the next run after an exit
Clear ==
    /\ tpc \in {"returned", "fatal", "raised"}
    /\ UnitHierarchy' = EmptyGraph
    /\ gops' = 0
    /\ tpc' = "build"
    /\ order' = <<>>
    /\ block_order' = <<>>
    /\ nghbr_cnt' = <<>>
    /\ UNCHANGED <<cacheVars, regVars, callVars>>

\* ========================================================= the block registry
\* Block.Inventory and Block.Hierarchy while the blocks of a workspace are
\* loaded (Block.__init__), deleted and checked for stability.

\* Block.Level
\* an empty level slot
None == [path |-> "None"]

\* apt.ENTITY_DELIM
ENTITY_DELIM == ":"

RECURSIVE Count(_, _)
\* s.count(sub): occurrences of sub in s that do not overlap
Count(s, sub) ==
    IF Len(sub) = 0 \/ Len(s) < Len(sub) THEN 0
    ELSE IF SubSeq(s, 1, Len(sub)) = sub
         THEN 1 + Count(SubSeq(s, Len(sub) + 1, Len(s)), sub)
         ELSE Count(Tail(s), sub)

\* V = cls.stdVer(title[v_index+1:-1]) when the title has a '('
TitleVersion(title, v_index) ==
    IF v_index > -1 THEN stdVer(PySlice(title, v_index + 1, -1), FALSE, FALSE, FALSE)
    ELSE <<>>

\* title = title[:v_index] when the title has a '('
TitleName(title, v_index) ==
    IF v_index > -1 THEN PySlice(title, 0, v_index) ELSE title

\* sects[j] of a list of three: a negative index counts from its end
SectIndex(j) == IF j < 0 THEN j + 3 ELSE j

\* sects after "for i in range(len(pieces)-1, -1, -1): sects[diff+i] = pieces[i]":
\* the lowest i written to a place is the one that stays
Sects(pieces) ==
    [s \in 0..2 |->
        IF \E i \in 0..(Len(pieces) - 1) : SectIndex(3 - Len(pieces) + i) = s
        THEN pieces[(CHOOSE i \in 0..(Len(pieces) - 1) :
                        /\ SectIndex(3 - Len(pieces) + i) = s
                        /\ \A h \in 0..(i - 1) : SectIndex(3 - Len(pieces) + h) # s) + 1]
        ELSE <<>>]

\* sects[2] without the entity attached to it
WithoutEntity(sect) ==
    IF Count(sect, <<ENTITY_DELIM>>) > 0
    THEN PySlice(sect, 0, Find(sect, ENTITY_DELIM))
    ELSE sect

\* return sects[0],sects[1],sects[2],V
Snapped(sects, V) ==
    [M |-> sects[0], L |-> sects[1], N |-> WithoutEntity(sects[2]), V |-> V]

\* Block.snapTitle(title): the record [M, L, N, V] of a title
snapTitle(title) ==
    Snapped(Sects(Split(TitleName(title, RFind(title, "(")), ".")),
            TitleVersion(title, RFind(title, "(")))

RECURSIVE mergeSort(_, _)
\* sortVersions.mergeSort(l1, r1)
mergeSort(l1, r1) ==
    IF Len(l1) = 0 \/ Len(r1) = 0 THEN l1 \o r1
    ELSE IF cmpVer(l1[1], r1[1]) = r1[1]
         THEN <<r1[1]>> \o mergeSort(l1, Tail(r1))
         ELSE <<l1[1]>> \o mergeSort(Tail(l1), r1)

RECURSIVE sortVersions(_)
\* Block.sortVersions(unsorted_vers)
sortVersions(unsorted_vers) ==
    LET midpoint == Len(unsorted_vers) \div 2
    IN  IF Len(unsorted_vers) > 1
        THEN mergeSort(sortVersions(SubSeq(unsorted_vers, 1, midpoint)),
                       sortVersions(SubSeq(unsorted_vers, midpoint + 1, Len(unsorted_vers))))
        ELSE unsorted_vers

RECURSIVE Chain(_, _)
\* for v in vers: v_chain = v + '-' + v_chain
Chain(vers, v_chain) ==
    IF Len(vers) = 0 THEN v_chain
    ELSE Chain(Tail(vers), vers[1] \o <<"-">> \o v_chain)

\* M.L.N, the vendor left out when empty
Title(b) ==
    (IF b.M # <<>> THEN b.M \o <<".">> ELSE <<>>) \o b.L \o <<".">> \o b.N

\* Block.getFull(inc_ver, vers) of the block record b
getFull(b, inc_ver, vers) ==
    IF inc_ver
    THEN Title(b) \o <<"(">> \o Chain(sortVersions(vers), <<"@", "v">> \o b.version)
                  \o <<")">>
    ELSE Title(b)

\* d[:v_i+1] + d[at_i:]: a requirement without its usage codes
StripCodes(d) == PySlice(d, 0, RFind(d, "(") + 1) \o PySlice(d, RFind(d, "@"), Len(d))

RECURSIVE AddReqEdges(_, _, _, _)
\* for d in self.getMeta('requires'): Block.Hierarchy.addEdge(title, stripped d)
AddReqEdges(hier, title, requires, i) ==
    IF i > Len(requires) THEN hier
    ELSE AddReqEdges(addEdge(hier, title, StripCodes(requires[i])), title, requires, i + 1)

\* if(k.lower() not in m.keys()): m[k] = v
Ensure(m, k, v) == IF ~InSeq(Lower(k), MapKeys(m)) THEN MapPut(m, k, v) ELSE m

\* the three Maps once Inventory[M][L][N] exists, and the slots it holds
ScopesN(i1, mL, mN, b) == [i1 |-> i1, mL |-> mL, mN |-> mN, slots |-> MapGet(mN, b.N)]

\* the name scope is made when missing
ScopesL(i1, mL, b) ==
    ScopesN(i1, mL, Ensure(MapGet(mL, b.L), b.N, <<None, None, None>>), b)

\* the library scope is made when missing
ScopesM(i1, b) == ScopesL(i1, Ensure(MapGet(i1, b.M), b.L, <<>>), b)

\* Inventory[M][L][N] with the scopes made when missing: the record of the
\* three Maps after lines 149-155 and the slots of the block
Scopes(inv, b) == ScopesM(Ensure(inv, b.M, <<>>), b)

\* Inventory[M][L][N] = slots
SetSlots(sc, b, slots) ==
    MapPut(sc.i1, b.M, MapPut(sc.mL, b.L, MapPut(sc.mN, b.N, slots)))

\* the graph after the block and its requirements were added under its title
AddToHierarchy(hier, title, requires) ==
    AddReqEdges(addVertex(hier, title), title, requires, 1)

\* the slot is taken whether or not it is empty
TakeSlotOverwrite(sc, hier, b) ==
    [ok   |-> TRUE,
     inv  |-> SetSlots(sc, b, IF b.lvl < Len(sc.slots)
                              THEN [sc.slots EXCEPT ![b.lvl + 1] = b] ELSE sc.slots),
     hier |-> AddToHierarchy(hier, getFull(b, TRUE, <<>>), b.requires)]

\* addToInventory once the scopes sc exist: [ok, inv, hier]
TakeSlot(sc, hier, b) ==
    IF b.lvl < Len(sc.slots) /\ sc.slots[b.lvl + 1] # None
    THEN [ok |-> FALSE, inv |-> SetSlots(sc, b, sc.slots), hier |-> hier]
    ELSE [ok   |-> TRUE,
          inv  |-> SetSlots(sc, b, IF b.lvl < Len(sc.slots)
                                   THEN [sc.slots EXCEPT ![b.lvl + 1] = b]
                                   ELSE sc.slots),
          hier |-> AddToHierarchy(hier, getFull(b, TRUE, <<>>), b.requires)]

\* Block.addToInventory() of the block record b: [ok, inv, hier]
addToInventory(inv, hier, b) == TakeSlot(Scopes(inv, b), hier, b)

RECURSIVE LoadPins(_, _, _)
\* getInstalls() of a new INSTALLED record: a VERSION record is made, and
\* added to the registry r, for every directory beside it that names a version
LoadPins(r, pins, i) ==
    IF i > Len(pins) THEN r
    ELSE IF validVer(pins[i].dir, {1, 2, 3})
         THEN LoadPins(addToInventory(r.inv, r.hier, pins[i].block), pins, i + 1)
         ELSE LoadPins(r, pins, i + 1)

\* the _instls Map of an INSTALLED record: directory name -> VERSION record
RECURSIVE InstlsMap(_, _)

InstlsMap(pins, i) ==
    IF i = 0 THEN <<>>
    ELSE IF validVer(pins[i].dir, {1, 2, 3})
         THEN MapPut(InstlsMap(pins, i - 1), pins[i].dir, pins[i].block)
         ELSE InstlsMap(pins, i - 1)

\* Block.getInstalls() of the INSTALLED record b
getInstalls(b) == InstlsMap(b.pins, Len(b.pins))

\* Block.__init__ after addToInventory answered r: an INSTALLED record that
\* was added loads its installs
LoadInstalls(r, b) ==
    IF r.ok /\ b.lvl = INSTL THEN [LoadPins(r, b.pins, 1) EXCEPT !.ok = TRUE] ELSE r

\* Block.__init__(path, ws, lvl) of the block record b: [ok, inv, hier]
NewBlock(inv, hier, b) == LoadInstalls(addToInventory(inv, hier, b), b)

\* the words of the usage codes and of the release keywords
unstable == <<"u", "n", "s", "t", "a", "b", "l", "e">>

\* ver.lower() of "_,_,_,ver = Block.snapTitle(r)"
ReqVer(r) == Lower(snapTitle(r).V)

\* spec_v = r[:v_i+1].lower() + r[at_i:].lower()
SpecV(r) ==
    Lower(PySlice(r, 0, RFind(r, "(") + 1)) \o Lower(PySlice(r, RFind(r, "@"), Len(r)))

\* the loop over a requirement list in checkStability (lines 734-747 and
\* 803-818): whether it met 'unstable', and the lists it built
ScanReqs(reqs) ==
    [unstable   |-> \E i \in 1..Len(reqs) : Count(ReqVer(reqs[i]), unstable) > 0,
     spec_vers  |-> [i \in 1..Len(reqs) |-> SpecV(reqs[i])],
     use_latest |-> { SpecV(reqs[i]) :
                        i \in { j \in 1..Len(reqs) : Count(ReqVer(reqs[j]), latest) > 0 } }]

\* list(filter(lambda a: a in spec_vers, next_blocks))
FilterIn(next_blocks, spec_vers) == SelectSeq(next_blocks, LAMBDA a : InSeq(a, spec_vers))

\* how "for b_id in gs" ends on an error or an unstable requirement
Failed(stack) == [failed |-> TRUE, stack |-> stack]

RECURSIVE ForEachBlock(_, _, _, _, _, _)

\* the requirements sc of the target block were read: its neighbors that match
\* them are put in front of the stack and the loop goes on
VisitReqs(inv, hier, gs, ul, stack, i, sc) ==
    IF sc.unstable THEN Failed(stack)
    ELSE ForEachBlock(inv, hier, gs, ul,
                      <<[gs |-> FilterIn(getNeighbors(hier, gs[i], FALSE), sc.spec_vers),
                         ul |-> sc.use_latest]>> \o stack,
                      i + 1)

\* the requirement names a specific version and the installations are not
\* looked through for it: a version that is not there has no requirements
VisitVersionUnchecked(inv, hier, gs, ul, stack, i, ver, ver_blocks) ==
    IF ~InSeq(ver, MapKeys(ver_blocks))
    THEN VisitReqs(inv, hier, gs, ul, stack, i, ScanReqs(<<>>))
    ELSE VisitReqs(inv, hier, gs, ul, stack, i, ScanReqs(MapGet(ver_blocks, ver).requires))

\* the requirement names a specific version: the target is that installation
VisitVersion(inv, hier, gs, ul, stack, i, ver, ver_blocks) ==
    IF ~InSeq(ver, MapKeys(ver_blocks)) THEN Failed(stack)
    ELSE VisitReqs(inv, hier, gs, ul, stack, i, ScanReqs(MapGet(ver_blocks, ver).requires))

\* the block is known: instl is its INSTALLED slot
VisitInstl(inv, hier, gs, ul, stack, i, ver, instl) ==
    IF instl = None THEN Failed(stack)
    ELSE IF Lower(gs[i]) \notin ul
         THEN VisitVersion(inv, hier, gs, ul, stack, i, ver, getInstalls(instl))
         ELSE VisitReqs(inv, hier, gs, ul, stack, i, ScanReqs(instl.requires))

\* V in Inventory.keys() and L in Inventory[V].keys() and N in Inventory[V][L].keys()
Known(inv, t) ==
    /\ InSeq(t.M, MapKeys(inv))
    /\ InSeq(t.L, MapKeys(MapGet(inv, t.M)))
    /\ InSeq(t.N, MapKeys(MapGet(MapGet(inv, t.M), t.L)))

\* one identifier b_id = gs[i], snapped into t
VisitBlock(inv, hier, gs, ul, stack, i, t) ==
    IF ~Known(inv, t) THEN Failed(stack)
    ELSE VisitInstl(inv, hier, gs, ul, stack, i, PySlice(t.V, 1, Len(t.V)),
                    MapGet(MapGet(MapGet(inv, t.M), t.L), t.N)[INSTL + 1])

\* "for b_id in gs" from the i-th identifier on: [failed, stack], where stack
\* is neighbor_blocks with the lists of the visited blocks put in front
ForEachBlock(inv, hier, gs, ul, stack, i) ==
    IF i > Len(gs) THEN [failed |-> FALSE, stack |-> stack]
    ELSE VisitBlock(inv, hier, gs, ul, stack, i, snapTitle(gs[i]))

RECURSIVE WhileStack(_, _, _)

\* the for loop over the popped pair ended with r
AfterPop(inv, hier, r) == IF r.failed THEN FALSE ELSE WhileStack(inv, hier, r.stack)

\* gs, ul = neighbor_blocks.pop(), and the for loop over gs
Pop(inv, hier, neighbor_blocks, top) ==
    ForEachBlock(inv, hier, top.gs, top.ul,
                 SubSeq(neighbor_blocks, 1, Len(neighbor_blocks) - 1), 1)

\* while(len(neighbor_blocks)): pop the last pair and visit its blocks
WhileStack(inv, hier, neighbor_blocks) ==
    IF Len(neighbor_blocks) = 0 THEN TRUE
    ELSE AfterPop(inv, hier,
                  Pop(inv, hier, neighbor_blocks, neighbor_blocks[Len(neighbor_blocks)]))

\* checkStability after its first loop read the requirements into sc
CheckNeighbors(inv, hier, self, sc) ==
    IF sc.unstable THEN FALSE
    ELSE WhileStack(inv, hier,
                    <<[gs |-> FilterIn(getNeighbors(hier, getFull(self, TRUE, <<>>), FALSE),
                                       sc.spec_vers),
                       ul |-> sc.use_latest]>>)

\* Block.checkStability(block_reqs) of the block record self
checkStability(inv, hier, self, block_reqs) ==
    CheckNeighbors(inv, hier, self, ScanReqs(block_reqs))

\* ---- the blocks on disk

lib == <<"l", "i", "b">>

\* what the run is started on: how block b spells its title, what the current
\* block a requires, what b requires, whether b has a v1.0.0 pin, and whether
\* the current block names a vendor
Worlds ==
    [ spell : {"lower", "mixed"},
      ra    : {"none", "b_latest", "b_pinned", "c_unstable"},
      rb    : {"none", "c_unstable"},
      pin   : BOOLEAN,
      vendor : BOOLEAN ]

NoPins == <<>>

BlkC_D == [path |-> "dev/c", M |-> <<>>, L |-> lib, N |-> <<"c">>,
           version |-> Tail(VerText(0, 0, 0)), lvl |-> DNLD,
           requires |-> <<>>, pins |-> NoPins]

BlkC_I == [path |-> "cache/c", M |-> <<>>, L |-> lib, N |-> <<"c">>,
           version |-> Tail(VerText(1, 0, 0)), lvl |-> INSTL,
           requires |-> <<>>, pins |-> NoPins]

\* the requirement list of block b
RB(w) ==
    IF w.rb = "c_unstable" THEN <<getFull(BlkC_D, TRUE, <<unstable>>)>>
    ELSE <<>>

BlkB_V(w) == [path |-> "cache/b/v1.0.0",
              M |-> <<>>,
              L |-> IF w.spell = "mixed" THEN <<"L", "i", "b">> ELSE lib,
              N |-> IF w.spell = "mixed" THEN <<"B">> ELSE <<"b">>,
              version |-> Tail(VerText(1, 0, 0)), lvl |-> VER,
              requires |-> RB(w), pins |-> NoPins]

BlkB_I(w) == [BlkB_V(w) EXCEPT
                 !.path = "cache/b/b", !.lvl = INSTL,
                 !.pins = IF w.pin
                          THEN <<[dir |-> VerText(1, 0, 0), block |-> BlkB_V(w)]>>
                          ELSE NoPins]

\* the requirement list of the current block a
RA(w) ==
    IF w.ra = "b_latest" THEN <<getFull(BlkB_I(w), TRUE, <<latest>>)>>
    ELSE IF w.ra = "b_pinned" THEN <<getFull(BlkB_V(w), TRUE, <<VerText(1, 0, 0)>>)>>
    ELSE IF w.ra = "c_unstable" THEN <<getFull(BlkC_D, TRUE, <<unstable>>)>>
    ELSE <<>>

\* the current block, with the version its metadata holds
BlkA(w, version) == [path |-> "dev/a",
                     M |-> IF w.vendor THEN <<"v", "n", "d">> ELSE <<>>, L |-> lib, N |-> <<"a">>,
                     version |-> version, lvl |-> DNLD,
                     requires |-> RA(w), pins |-> NoPins]

\* a second working copy of the current block under another spelling
BlkA_copy == [path |-> "dev/a_copy", M |-> <<>>, L |-> <<"L", "i", "b">>, N |-> <<"A">>,
              version |-> Tail(VerText(0, 0, 0)), lvl |-> DNLD,
              requires |-> <<getFull(BlkC_D, TRUE, <<unstable>>)>>, pins |-> NoPins]

\* every block directory of the workspace and its cache
Catalogue(w, version) ==
    { BlkA(w, version), BlkA_copy, BlkB_I(w), BlkC_I, BlkC_D }

\* Inventory[M][L][N] of the block record b, three empty slots when unknown
SlotsOf(inv, b) == Scopes(inv, b).slots

\* ---- the registry at work

\* the registry after Block.__init__ of b answered r
Registered(b, r) ==
    /\ Inventory' = r.inv
    /\ Hierarchy' = r.hier
    /\ regOp' = [name |-> "register", block |-> b, ok |-> r.ok]

\* Block(path, ws, lvl): a block directory is loaded
Register(b) ==
    /\ cmds = 0
    /\ nreg < MaxRegOps
    /\ nreg' = nreg + 1
    /\ Registered(b, NewBlock(Inventory, Hierarchy, b))
    /\ UNCHANGED <<world, cmds, repoTags, metaVersion, commits, pushes, cacheLatest, rel>>
    /\ UNCHANGED <<cacheVars, graphVars, callVars>>

\* Block.delete() asks when the block exists at one level only
Asks(slots) ==
    Cardinality({ i \in 1..Len(slots) : slots[i] = None }) = Len(slots) - 1

\* a delete that removes the directory and empties the slot whatever the answer
DeletedUnasked(b, sc, yes) ==
    /\ regOp' = [name |-> "delete", block |-> b, ok |-> TRUE, yes |-> yes, rmtree |-> TRUE]
    /\ Inventory' = SetSlots(sc, b, [sc.slots EXCEPT ![b.lvl + 1] = None])

\* Block.delete() of the block b, whose scopes are sc; rmtree tells that the
\* directory of the record was removed
Deleted(b, sc, yes) ==
    IF Asks(sc.slots) /\ ~yes
    THEN /\ regOp' = [name |-> "delete", block |-> b, ok |-> FALSE, yes |-> yes,
                      rmtree |-> FALSE]
         /\ UNCHANGED Inventory
    ELSE /\ regOp' = [name |-> "delete", block |-> b, ok |-> TRUE, yes |-> yes,
                      rmtree |-> TRUE]
         /\ Inventory' = SetSlots(sc, b, [sc.slots EXCEPT ![b.lvl + 1] = None])

\* Block.delete() of a registered block; yes answers the prompt, if it asks
deleteBlock(b, yes) ==
    /\ cmds = 0
    /\ nreg < MaxRegOps
    /\ nreg' = nreg + 1
    /\ b.lvl < VER
    /\ SlotsOf(Inventory, b)[b.lvl + 1] = b
    /\ Deleted(b, Scopes(Inventory, b), yes)
    /\ UNCHANGED <<Hierarchy, world, cmds, repoTags, metaVersion, commits, pushes,
                   cacheLatest, rel>>
    /\ UNCHANGED <<cacheVars, graphVars, callVars>>

\* checkStability is called on the registered block self with its requirements
Checked(self) ==
    /\ SlotsOf(Inventory, self)[DNLD + 1] = self
    /\ regOp' = [name  |-> "checkStability",
                 block |-> self,
                 ok    |-> checkStability(Inventory, Hierarchy, self, self.requires)]

\* a command calls checkStability on the current block with its requirements
CheckStability ==
    /\ cmds = 0
    /\ Checked(BlkA(world, metaVersion))
    /\ cmds' = 1
    /\ UNCHANGED <<Inventory, Hierarchy, world, nreg, repoTags, metaVersion, commits, pushes,
                   cacheLatest, rel>>
    /\ UNCHANGED <<cacheVars, graphVars, callVars>>

\* the next run of the program starts with an empty registry
NewRun ==
    /\ cmds > 0
    /\ Inventory' = <<>>
    /\ Hierarchy' = EmptyGraph
    /\ regOp' = [name |-> "start", block |-> None, ok |-> TRUE]
    /\ cmds' = 0
    /\ nreg' = 0
    /\ UNCHANGED <<world, repoTags, metaVersion, commits, pushes, cacheLatest, rel>>
    /\ UNCHANGED <<cacheVars, graphVars, callVars>>

\* ================================================================== release
\* The current block is released, one command per run of the program; the
\* workspace is loaded at the start of every run.

major == <<"m", "a", "j", "o", "r">>

minor == <<"m", "i", "n", "o", "r">>

patch == <<"p", "a", "t", "c", "h">>

\* Block.NULL_VER
NULL_VER == VerText(0, 0, 0)

\* what a caller may pass as next_ver
ReleaseInputs ==
    { major, minor, patch, VerText(0, 1, 0), Tail(VerText(1, 0, 0)), <<"v", "1">> }

\* what the collaborators answer during one release, with at most one of the
\* first checks failing: write permission on the
\* block's remote, the vendor in the workspace ("none", "found", or "noperm"
\* when found without write permission), whether a remote is configured, and
\* the answer of isLatest ("ok", "offline", "behind")
ReleaseEnvs ==
    [ perm : {TRUE}, vndr : {"none", "found"}, remote : BOOLEAN, sync : {"ok"} ]
    \cup { [perm |-> FALSE, vndr |-> "found", remote |-> TRUE, sync |-> "ok"],
           [perm |-> TRUE, vndr |-> "noperm", remote |-> TRUE, sync |-> "ok"],
           [perm |-> TRUE, vndr |-> "found", remote |-> TRUE, sync |-> "offline"],
           [perm |-> TRUE, vndr |-> "found", remote |-> TRUE, sync |-> "behind"] }

RECURSIVE HighestFrom(_, _, _)
\* for v in all_vers: if cmpVer(highest, v) == v: highest = v
HighestFrom(all_vers, highest, i) ==
    IF i > Len(all_vers) THEN highest
    ELSE HighestFrom(all_vers,
                     IF cmpVer(highest, all_vers[i]) = all_vers[i]
                     THEN all_vers[i] ELSE highest,
                     i + 1)

\* Block.getHighestTaggedVersion() over the tagged versions all_vers
getHighestTaggedVersion(all_vers) == HighestFrom(all_vers, NULL_VER, 1)

\* Block.isCorrupt(ver) of a valid block with all its keys, whose metadata
\* holds 'version' = version
isCorrupt(ver, version) == Tail(ver) # version

\* the main installation of the current block, once it has one
BlkA_I(w, version) ==
    [BlkA(w, version) EXCEPT !.path = "cache/a/a", !.lvl = INSTL]

\* no release made yet
NoRelease ==
    [next_ver |-> NoVer, dry_run |-> FALSE, result |-> "none", report |-> "none",
     stable |-> TRUE, V |-> NoVer, tags |-> <<>>, version |-> NoVer, published |-> FALSE,
     env |-> [perm |-> TRUE, vndr |-> "none", remote |-> FALSE, sync |-> "ok"]]

RECURSIVE LoadAll(_, _, _)
\* the workspace makes a Block of every directory in blocks, in order
LoadAll(r, blocks, i) ==
    IF i > Len(blocks) THEN r
    ELSE LoadAll(NewBlock(r.inv, r.hier, blocks[i]), blocks, i + 1)

\* the block directories of the workspace and of its cache, in loading order
Directories(w, version, cache_latest) ==
    <<BlkA(w, version), BlkC_D, BlkB_I(w), BlkC_I>>
    \o (IF cache_latest # NoVer THEN <<BlkA_I(w, Tail(cache_latest))>> ELSE <<>>)

\* the registry a loaded workspace leaves
Loaded(r) ==
    /\ Inventory' = r.inv
    /\ Hierarchy' = r.hier

\* a run starts: every block of the workspace and of the cache is loaded
LoadWorkspace ==
    /\ cmds > 0
    /\ Loaded(LoadAll([ok |-> TRUE, inv |-> <<>>, hier |-> EmptyGraph],
                      Directories(world, metaVersion, cacheLatest), 1))
    /\ regOp' = [name |-> "load", block |-> None, ok |-> TRUE]
    /\ cmds' = 0
    /\ rel' = NoRelease
    /\ UNCHANGED <<world, nreg, repoTags, metaVersion, commits, pushes, cacheLatest>>
    /\ UNCHANGED <<cacheVars, graphVars, callVars>>

\* step 2 of release, p being sepVer(highest_ver)
Increment(next_ver, highest_ver, p) ==
    IF validVer(next_ver, {3})
    THEN IF cmpVer(next_ver, highest_ver) = highest_ver
         THEN [ver |-> NoVer, why |-> "rejected"]
         ELSE [ver |-> next_ver, why |-> "given"]
    ELSE IF Lower(next_ver) = major
         THEN [ver |-> VerText(p[1] + 1, 0, 0), why |-> "major"]
    ELSE IF Lower(next_ver) = minor
         THEN [ver |-> VerText(p[1], p[2] + 1, 0), why |-> "minor"]
    ELSE IF Lower(next_ver) = patch
         THEN [ver |-> VerText(p[1], p[2], p[3] + 1), why |-> "patch"]
    ELSE [ver |-> NoVer, why |-> "invalid"]

\* the version release works out from next_ver and the highest tag: NoVer
\* when the request is refused ("rejected") or not understood ("invalid")
NextVersion(next_ver, highest_ver) ==
    Increment(next_ver, highest_ver, sepVer(highest_ver))

\* next_ver = next_ver.lower(); 'v' is put in front when missing
WithV(next_ver) ==
    IF Lower(next_ver)[1] # "v" THEN <<"v">> \o Lower(next_ver) ELSE Lower(next_ver)

\* the checks of release without the one on isLatest
EarlyUnsynced(env, vndr, highest_ver, nv, stable, dry_run) ==
    IF ~env.perm THEN "noperm"
    ELSE IF vndr = "noperm" THEN "novperm"
    ELSE IF isCorrupt(highest_ver, Tail(highest_ver)) THEN "corrupt"
    ELSE IF nv.ver = NoVer THEN nv.why
    ELSE IF ~stable /\ ~dry_run THEN "unstable"
    ELSE "go"

\* the first check of release that makes it return, "go" when none does;
\* secureMeta() has set 'version', in memory, to the highest tag
Early(env, vndr, highest_ver, nv, stable, dry_run) ==
    IF ~env.perm THEN "noperm"
    ELSE IF vndr = "noperm" THEN "novperm"
    ELSE IF env.sync # "ok" THEN env.sync
    ELSE IF isCorrupt(highest_ver, Tail(highest_ver)) THEN "corrupt"
    ELSE IF nv.ver = NoVer THEN nv.why
    ELSE IF ~stable /\ ~dry_run THEN "unstable"
    ELSE "go"

\* release returns on a check: nothing is changed
Refused(next_ver, dry_run, env, early, stable, highest_ver) ==
    /\ rel' = [next_ver |-> next_ver, dry_run |-> dry_run, result |-> early,
               report |-> "none", stable |-> stable,
               V |-> <<"v">> \o metaVersion, tags |-> repoTags,
               version |-> Tail(highest_ver), published |-> FALSE, env |-> env]
    /\ UNCHANGED <<Inventory, Hierarchy, repoTags, metaVersion, commits,
                   pushes, cacheLatest>>

\* self.install(): the main installation is replaced by the highest tag
Reinstalled(instl) ==
    /\ Inventory' = instl.inv
    /\ Hierarchy' = instl.hier

\* the real run: save, commit, tag, push, install
Saved(self, tag, latest_ver) ==
    /\ metaVersion' = Tail(tag)
    /\ commits' = commits + 1
    /\ repoTags' = Append(repoTags, tag)
    /\ pushes' = pushes + 1
    /\ cacheLatest' = latest_ver
    /\ Reinstalled(NewBlock(SetSlots(Scopes(Inventory, self), self,
                                     [SlotsOf(Inventory, self) EXCEPT ![INSTL + 1] = None]),
                            Hierarchy, BlkA_I(world, Tail(latest_ver))))

\* steps 3 to 7 of release and the publishing; crash: vndr.getName() is
\* called on no vendor at all
Steps(self, next_ver, dry_run, env, stable, tag, crash, publish) ==
    /\ rel' = [next_ver |-> next_ver, dry_run |-> dry_run,
               result |-> IF crash THEN "crashed"
                          ELSE IF dry_run THEN "dry" ELSE "released",
               report |-> IF dry_run /\ ~crash
                          THEN (IF stable THEN "PASSED" ELSE "FAILED") ELSE "none",
               stable |-> stable,
               V |-> tag, tags |-> Append(repoTags, tag),
               version |-> Tail(tag),
               published |-> ~dry_run /\ publish, env |-> env]
    /\ IF dry_run
       THEN UNCHANGED <<Inventory, Hierarchy, repoTags, metaVersion, commits,
                        pushes, cacheLatest>>
       ELSE Saved(self, tag, getHighestTaggedVersion(Append(repoTags, tag)))

\* release once the next version nv and the stability are known
Decide(self, next_ver, dry_run, env, vndr, highest_ver, nv, stable) ==
    IF Early(env, vndr, highest_ver, nv, stable, dry_run) # "go"
    THEN Refused(next_ver, dry_run, env,
                 Early(env, vndr, highest_ver, nv, stable, dry_run),
                 stable, highest_ver)
    ELSE Steps(self, next_ver, dry_run, env, stable, WithV(nv.ver),
               world.vendor /\ vndr = "none" /\ ~env.remote,
               world.vendor /\ vndr # "none" /\ env.remote)

\* release of the block self; vndr is the vendor named by the metadata as the
\* workspace has it
Releasing(self, next_ver, dry_run, env, vndr, highest_ver) ==
    Decide(self, next_ver, dry_run, env, vndr, highest_ver,
           NextVersion(next_ver, highest_ver),
           checkStability(Inventory, Hierarchy, self, self.requires))

\* Block.release(next_ver, dry_run=dry_run) of the current block
Release(next_ver, dry_run, env) ==
    /\ cmds = 0
    /\ Len(repoTags) < MaxReleases
    /\ SlotsOf(Inventory, BlkA(world, metaVersion))[DNLD + 1] = BlkA(world, metaVersion)
    /\ Releasing(BlkA(world, metaVersion), next_ver, dry_run, env,
                 IF world.vendor THEN env.vndr ELSE "none",
                 getHighestTaggedVersion(repoTags))
    /\ regOp' = [name |-> "release", block |-> BlkA(world, metaVersion), ok |-> TRUE]
    /\ cmds' = 1
    /\ UNCHANGED <<world, nreg>>
    /\ UNCHANGED <<cacheVars, graphVars, callVars>>

\* ======================================================= the main installation
\* Block.install() of a DOWNLOADED or AVAILABLE record and Block.uninstall(ver),
\* on the installation cache of the block of the first part. The block
\* requires no other block, so that installReqs() finds nothing to do.

\* the tags of the block's repository, oldest first
AllTags == <<VerText(1, 0, 0), VerText(1, 0, 1), VerText(1, 1, 0), VerText(2, 0, 0)>>

\* what the staging clone made by install() holds: the tags it lists and the
\* 'version' of the metadata loaded from it
Clones ==
    { [tags |-> <<>>, version |-> Tail(NULL_VER)],
      [tags |-> AllTags, version |-> Tail(VerText(2, 0, 0))],
      [tags |-> AllTags, version |-> Tail(VerText(1, 1, 0))] }

\* how far install() of a record at level lvl gets before it writes to the
\* cache: remote is the answer of Git.isValidRepo on the 'remote' field
Staged(lvl, remote, clone) ==
    IF ~remote /\ lvl # DNLD THEN "unreachable"
    ELSE IF getHighestTaggedVersion(clone.tags) = NULL_VER THEN "untagged"
    ELSE IF isCorrupt(getHighestTaggedVersion(clone.tags), clone.version) THEN "corrupt"
    ELSE "staged"

\* the main installation after install(), were the standing one deleted
\* before the staged clone is examined
ReplacedEagerly(staged, clone) ==
    IF staged = "staged" THEN clone.version ELSE NoVer

\* the main installation after install(): the standing one is deleted and
\* the clone put in its place only once the clone passed every check
Replaced(staged, clone) ==
    IF staged = "staged" THEN clone.version ELSE main

\* the state install() of a DOWNLOADED or AVAILABLE record leaves; the new
\* INSTALLED record scans the cache for its pins when it is made
InstalledLatest(staged, clone) ==
    /\ op' = [name |-> "install_latest", ver |-> NoVer, result |-> staged]
    /\ main' = Replaced(staged, clone)
    /\ lvls' = [lvls EXCEPT ![INSTL + 1] = Replaced(staged, clone) # NoVer]
    /\ instls' = IF staged = "staged" THEN Scanned(cache) ELSE instls
    /\ head' = IF staged = "staged" THEN NoVer ELSE head
    /\ writable' = IF staged = "staged" THEN FALSE ELSE writable
    /\ allOk' = (allOk /\ staged = "staged")

\* Block.install() on the record of level lvl, DOWNLOADED or AVAILABLE
InstallLatest(lvl, remote, clone) ==
    /\ status = "run"
    /\ nops < MaxCacheOps
    /\ nops' = nops + 1
    /\ lvls[lvl + 1]
    /\ InstalledLatest(Staged(lvl, remote, clone), clone)
    /\ UNCHANGED <<cache, status, tracking>>
    /\ UNCHANGED <<graphVars, regVars, callVars>>

\* what a caller may pass to uninstall(ver), NoVer standing for None
UninstallInputs ==
    { NoVer, <<"1", ".", "0">>, VerText(1, 0, 1), VerText(3, 0, 0) }

\* the installation the user may refuse to delete when delete() asks, NoVer
\* standing for none
Declinable == { NoVer, latest, VerText(1, 0, 0) }

\* the test of uninstall on a key v of the map: no part of ver is missing
\* from v or differs from it
Captured(v_parts, parts) ==
    /\ Len(v_parts) >= Len(parts)
    /\ \A i \in 1..Len(parts) : v_parts[i] = parts[i]

\* the keys of uninstallations: taken from the record's map; "latest" is the
\* main installation
Uninstallations(ver) ==
    IF ver = NoVer
    THEN { k \in PinNames : instls[k] # NoVer } \cup {latest}
    ELSE { k \in PinNames :
             /\ instls[k] # NoVer
             /\ Captured(Split(k, "."), Split(stdVer(ver, TRUE, FALSE, FALSE), ".")) }

\* the record's map once uninstall has built its list: for ver None
\* "uninstallations = installations" names the map itself, and
\* "uninstallations['latest'] = instl" writes into it
Aliased(ver) == IF ver = NoVer THEN [instls EXCEPT ![latest] = main] ELSE instls

\* delete() asks before it removes a block that is at one level only
Alone == Cardinality({ i \in 1..3 : ~lvls[i] }) = 3 - 1

\* the installations the loop of uninstall deletes: declined is the one the
\* user refused to delete when asked
Deletions(uninstalls, declined) ==
    IF Alone THEN uninstalls \ {declined} ELSE uninstalls

\* the state uninstall leaves after its prompt was answered yes; rmtree
\* raises on a directory that is no longer there
Uninstalling(ver, uninstalls, gone) ==
    IF \E k \in gone \ {latest} : cache[k] = NoVer
    THEN /\ op' = [name |-> "uninstall", ver |-> ver, result |-> "crash"]
         /\ status' = "crashed"
         /\ \E first \in BOOLEAN :
                cache' = [k \in PinNames |->
                            IF ~first /\ k \in gone THEN NoVer ELSE cache[k]]
         /\ instls' = Aliased(ver)
         /\ UNCHANGED <<main, lvls>>
    ELSE /\ op' = [name |-> "uninstall", ver |-> ver,
                   result |-> IF gone = uninstalls THEN "uninstalled" ELSE "partly"]
         /\ status' = status
         /\ cache' = [k \in PinNames |-> IF k \in gone THEN NoVer ELSE cache[k]]
         /\ main' = IF latest \in gone THEN NoVer ELSE main
         /\ lvls' = [lvls EXCEPT ![INSTL + 1] = ~(latest \in gone)]
         /\ instls' = IF latest \in gone THEN [k \in MapNames |-> NoVer] ELSE Aliased(ver)

\* uninstall returns False: the block is not installed, no installation was
\* captured, or the user answered no
NotUninstalled(ver, why) ==
    /\ op' = [name |-> "uninstall", ver |-> ver, result |-> why]
    /\ instls' = IF why = "cancelled" THEN Aliased(ver) ELSE instls
    /\ UNCHANGED <<cache, main, lvls, status>>

\* Block.uninstall(ver) on a record of the block; yes answers 'Proceed to
\* uninstall?'
uninstall(ver, yes, declined) ==
    /\ status = "run"
    /\ nops < MaxCacheOps
    /\ nops' = nops + 1
    /\ \E i \in 1..3 : lvls[i]
    /\ IF ~lvls[INSTL + 1] THEN NotUninstalled(ver, "notinstalled")
       ELSE IF Uninstallations(ver) = {} THEN NotUninstalled(ver, "nothing")
       ELSE IF ~yes THEN NotUninstalled(ver, "cancelled")
       ELSE Uninstalling(ver, Uninstallations(ver),
                         Deletions(Uninstallations(ver), declined))
    /\ UNCHANGED <<head, writable, allOk, tracking>>
    /\ UNCHANGED <<graphVars, regVars, callVars>>

\* ================================================ the requirements of a block
\* Block.installReqs of a block whose requirements all name the block of the
\* installation cache above.

\* titles found in the 'requires' field, as getFull(inc_ver=True) writes them
ReqLatest == <<"l", "i", "b", ".", "b", "(", "l", "a", "t", "e", "s", "t", "-", "@", "v", "1", ".", "1", ".", "0", ")">>

ReqMinor0 == <<"l", "i", "b", ".", "b", "(", "v", "1", ".", "0", "-", "@", "v", "1", ".", "0", ".", "1", ")">>

ReqMinor1 == <<"l", "i", "b", ".", "b", "(", "v", "1", ".", "1", "-", "@", "v", "1", ".", "1", ".", "0", ")">>

ReqTitles == { ReqLatest, ReqMinor0, ReqMinor1 }

\* the 'requires' fields a caller may hold
Requires == { <<ReqLatest>>, <<ReqMinor0>>, <<ReqMinor0, ReqMinor1>>,
              <<ReqMinor1, ReqLatest>> }

\* "v_ref = V[:at_sym-1].split('-')"
v_ref(V) == Split(PySlice(V, 0, Find(V, "@") - 1), "-")

\* "spec_ver = V[at_sym+1:]"
spec_ver(V) == PySlice(V, Find(V, "@") + 1, Len(V))

\* what installReqs works on: the disk, the records in memory, and what it
\* has reported so far
Work == [cache |-> cache, head |-> head, writable |-> writable, instls |-> instls,
         lvls |-> lvls, main |-> main, tracking |-> tracking, errors |-> 0,
         crashed |-> FALSE]

\* Workspace.shortcut(M.L.N, visibility=False): a record of the block, whatever
\* its level, or None
shortcut(w) == \E i \in 1..3 : w.lvls[i]

\* the level of the record shortcut returns for a block that has no INSTALLED
\* record, lvl being the one it prefers
Found(w, lvl) == IF w.lvls[lvl + 1] THEN lvl ELSE (DNLD + AVAIL) - lvl

\* the loop over v_ref: no usage code but 'latest' is missing from ready_vers
all_here(w, codes) ==
    \A i \in 1..Len(codes) :
        \/ Lower(codes[i]) = latest
        \/ codes[i] \in PinNames /\ w.instls[codes[i]] # NoVer

\* the work after "instllr.install(ver=V)" ended as end
Filled(w, end) ==
    [w EXCEPT !.cache = end.cache, !.head = end.head, !.writable = end.writable,
              !.crashed = (end.result = "crash"),
              !.errors = IF end.result \in {"installed", "already"} THEN @ ELSE @ + 1]

\* "ready_vers = instllr.getInstalls()" and what follows it
Satisfy(w, V, yes) ==
    IF all_here(w, v_ref(V)) THEN w
    ELSE Filled(w, InstallVersion([instls |-> w.instls, lvls |-> w.lvls],
                                  [cache |-> w.cache, head |-> w.head,
                                   writable |-> w.writable, crashed |-> FALSE,
                                   ret |-> FALSE],
                                  stdVer(spec_ver(V), TRUE, FALSE, FALSE), yes, yes))

\* the work after b.install() made the main installation from clone and
\* returned its new record
Main(w, clone) ==
    [w EXCEPT !.main = clone.version, !.lvls[INSTL + 1] = TRUE, !.instls = Scanned(w.cache),
              !.head = NoVer, !.writable = FALSE]

\* "instllr = b.getLvlBlock(Block.Level.INSTL)", else "instllr = b.install()";
\* install() returns None when it fails and None has no getInstalls
Installer(w, V, lvl, remote, clone, yes) ==
    IF w.lvls[INSTL + 1] THEN Satisfy(w, V, yes)
    ELSE IF Staged(Found(w, lvl), remote, clone) = "staged"
         THEN Satisfy(Main(w, clone), V, yes)
         ELSE [w EXCEPT !.crashed = TRUE, !.errors = @ + 1]

\* one pass of the loop "for title in self.getMeta('requires')"
Handled(w, title, lvl, remote, clone, yes) ==
    IF w.crashed \/ InSeq(Lower(title), w.tracking) THEN w
    ELSE IF ~shortcut(w)
         THEN [w EXCEPT !.tracking = Append(@, Lower(title)), !.errors = @ + 1]
         ELSE Installer([w EXCEPT !.tracking = Append(@, Lower(title))],
                        snapTitle(title).V, lvl, remote, clone, yes)

RECURSIVE installReqs(_, _, _, _, _, _)
\* Block.installReqs(tracking) of a block whose 'requires' field is requires
installReqs(w, requires, lvl, remote, clone, yes) ==
    IF requires = <<>> THEN w
    ELSE installReqs(Handled(w, Head(requires), lvl, remote, clone, yes),
                     Tail(requires), lvl, remote, clone, yes)

\* the state installReqs leaves when its work ended as w; skipped are the
\* requirements the list already held when the call began
RequirementsInstalled(requires, unmet, w) ==
    /\ op' = [name |-> "installReqs", ver |-> NoVer,
              result |-> IF w.crashed THEN "crash" ELSE "returned",
              requires |-> requires, unmet |-> unmet, errors |-> w.errors,
              skipped |-> { i \in 1..Len(requires) :
                              InSeq(Lower(requires[i]), tracking) }]
    /\ cache' = w.cache
    /\ head' = w.head
    /\ writable' = w.writable
    /\ instls' = w.instls
    /\ lvls' = w.lvls
    /\ main' = w.main
    /\ tracking' = w.tracking
    /\ status' = IF w.crashed THEN "crashed" ELSE status
    /\ allOk' = (allOk /\ w.errors = 0)

\* a call of installReqs() on a block that requires the block of the cache
InstallReqs(requires, lvl, remote, clone, yes) ==
    /\ status = "run"
    /\ nops < MaxCacheOps
    /\ nops' = nops + 1
    /\ RequirementsInstalled(requires,
                             \/ ~shortcut(Work)
                             \/ /\ ~lvls[INSTL + 1]
                                /\ Staged(Found(Work, lvl), remote, clone) # "staged",
                             installReqs(Work, requires, lvl, remote, clone, yes))
    /\ UNCHANGED <<graphVars, regVars, callVars>>

\* ============================================================ function calls
\* Functions whose result depends on their arguments only, called on
\* arguments drawn from small sets.

\* no call made yet
NoCall == [name |-> "none"]

\* apt.MARKER
MARKER == <<"B", "l", "o", "c", "k", ".", "l", "o", "c", "k">>

\* apt.SRC_CODE
SRC_CODE == { <<"*", ".", "v", "h", "d">>, <<"*", ".", "v", "h", "d", "l">>, <<"*", ".", "v">>, <<"*", ".", "s", "v">> }

\* the name installPartialVersion compares a file's name with
KeptName == <<"B", "l", "o", "c", "k", ".", "c", "f", "g">>

\* the files a snapshot of the block may hold besides its marker file
Files == { <<"B", "l", "o", "c", "k", ".", "c", "f", "g">>, <<"a", "d", "d", "e", "r", ".", "v", "h", "d">>, <<"T", "O", "P", ".", "V", "H", "D">>, <<"c", "o", "r", "e", ".", "s", "v">>, <<"M", "a", "k", "e", "f", "i", "l", "e">>, <<"n", "o", "t", "e", "s", ".", "m", "d">> }

\* os.path.splitext(f)[1] of a file name: from the last dot on, nothing when
\* the name has no dot or only a leading one
splitext(f) == IF RFind(f, ".") <= 0 THEN <<>> ELSE PySlice(f, RFind(f, "."), Len(f))

\* the loop of installPartialVersion over the files of the copy, places < 3:
\* a file stays when it is named after KeptName or has a source extension
Stripped(files) ==
    { f \in files : f = KeptName \/ (<<"*">> \o Lower(splitext(f))) \in SRC_CODE }

\* the copy installPartialVersion leaves for a snapshot holding files
Copied(files, places) == IF places < 3 THEN Stripped(files) ELSE files

\* Block.isValid() of a directory holding files
isValid(files) == MARKER \in files

\* installPartialVersion(ver, places) with no pin standing at the truncated
\* version, on a snapshot whose metadata is sound: the copy is removed again
\* when Block.isCorrupt finds it invalid
Pinned(files, places, copy) ==
    [name |-> "installPartialVersion", files |-> files, places |-> places,
     made |-> isValid(copy), pin |-> IF isValid(copy) THEN copy ELSE {}]

\* installPartialVersion(ver, places) on the snapshot of a valid block
StripSnapshot(files, places) ==
    /\ call = NoCall
    /\ call' = Pinned(files \cup {MARKER}, places, Copied(files \cup {MARKER}, places))
    /\ UNCHANGED <<cacheVars, graphVars, regVars>>

\* the numbers the versions compared are made of
CmpParts == {0, 1, 9, 10}

\* a version as a caller writes it, with its 'v' or without
Written(t, v) == IF v THEN VerText(t[1], t[2], t[3]) ELSE Tail(VerText(t[1], t[2], t[3]))

\* the call cmpVer(lver, rver) on the texts of the versions x and y
Compared(x, y, lver, rver) ==
    [name |-> "cmpVer", x |-> x, y |-> y, lver |-> lver, rver |-> rver,
     result |-> cmpVer(lver, rver)]

\* Block.cmpVer on two versions
Compare(x, y, vx, vy) ==
    /\ call = NoCall
    /\ call' = Compared(x, y, Written(x, vx), Written(y, vy))
    /\ UNCHANGED <<cacheVars, graphVars, regVars>>

\* a version written out, read back by sepVer and written out again
ReadBack(t, text, parsed) ==
    [name |-> "sepVer", triple |-> t, text |-> text,
     std |-> stdVer(text, TRUE, FALSE, FALSE), parsed |-> parsed,
     again |-> VerText(parsed[1], parsed[2], parsed[3])]

\* Block.sepVer on the text of the version (a, b, c)
RoundTrip(a, b, c) ==
    /\ call = NoCall
    /\ call' = ReadBack(<<a, b, c>>, VerText(a, b, c), sepVer(VerText(a, b, c)))
    /\ UNCHANGED <<cacheVars, graphVars, regVars>>

\* what a caller may pass to sepVer: a text, or None (given is FALSE)
SepInputs ==
    { [given |-> TRUE, text |-> t] :
        t \in { <<>>, <<"v", "1">>, <<"v", "1", ".", "2">>, <<"v", "1", ".", "2", ".", "3">>, <<"2">>, <<"v", "1", ".", "b", ".", "3">>, <<"v", "1", "0", ".", "1", "1">> } }
    \cup { [given |-> FALSE, text |-> <<>>] }

\* the call sepVer(ver): stdVer calls ver.replace, which None does not have
Separated(arg) ==
    [name |-> "separate", arg |-> arg, raised |-> ~arg.given,
     result |-> IF arg.given THEN sepVer(arg.text) ELSE <<>>]

\* Block.sepVer on any value
Separate(arg) ==
    /\ call = NoCall
    /\ call' = Separated(arg)
    /\ UNCHANGED <<cacheVars, graphVars, regVars>>

\* ============================================================ specifications

\* the installation cache at rest
CacheIdle ==
    /\ cache = [k \in PinNames |-> NoVer]
    /\ head = NoVer
    /\ writable = FALSE
    /\ instls = [k \in MapNames |-> NoVer]
    /\ lvls = <<TRUE, TRUE, FALSE>>
    /\ main = Tail(VerText(2, 0, 0))
    /\ nops = 0
    /\ status = "run"
    /\ op = [name |-> "load", ver |-> NoVer, result |-> "loaded"]
    /\ allOk = TRUE
    /\ tracking = <<>>

\* the unit graph at rest
GraphIdle ==
    /\ UnitHierarchy = EmptyGraph
    /\ gops = 0
    /\ tpc = "build"
    /\ order = <<>>
    /\ block_order = <<>>
    /\ nghbr_cnt = <<>>

\* a new block, never released, and an empty registry
FreshRepo ==
    /\ Inventory = <<>>
    /\ Hierarchy = EmptyGraph
    /\ regOp = [name |-> "start", block |-> None, ok |-> TRUE]
    /\ repoTags = <<>>
    /\ metaVersion = Tail(NULL_VER)
    /\ commits = 0
    /\ pushes = 0
    /\ cacheLatest = NoVer
    /\ rel = NoRelease

\* the registry at rest
RegIdle ==
    /\ FreshRepo
    /\ world = [spell |-> "lower", ra |-> "none", rb |-> "none", pin |-> FALSE,
                vendor |-> FALSE]
    /\ cmds = 0
    /\ nreg = 0

\* no function called
CallIdle == call = NoCall

\* ---- the installation cache
Init ==
    /\ cache = [k \in PinNames |-> NoVer]
    /\ head = NoVer
    /\ writable = FALSE
    /\ instls = [k \in MapNames |-> NoVer]
    /\ lvls \in { <<TRUE, TRUE, FALSE>>, <<FALSE, TRUE, FALSE>> }
    /\ main = Tail(VerText(2, 0, 0))
    /\ nops = 0
    /\ status = "run"
    /\ op = [name |-> "load", ver |-> NoVer, result |-> "loaded"]
    /\ allOk = TRUE
    /\ tracking = <<>>
    /\ GraphIdle
    /\ RegIdle
    /\ CallIdle

Next ==
    \/ \E v \in InstallInputs, yes1, yes2 \in BOOLEAN : install(v, yes1, yes2)
    \/ \E dnld, avail \in BOOLEAN : NewInvocation(dnld, avail)
    \/ \E lvl \in {DNLD, AVAIL}, remote \in BOOLEAN, clone \in Clones :
            InstallLatest(lvl, remote, clone)
    \/ \E ver \in UninstallInputs, yes \in BOOLEAN, declined \in Declinable :
            uninstall(ver, yes, declined)
    \/ \E requires \in Requires, lvl \in {DNLD, AVAIL}, remote \in BOOLEAN,
          clone \in Clones, yes \in BOOLEAN :
            InstallReqs(requires, lvl, remote, clone, yes)

Spec == Init /\ [][Next]_vars

\* ---- the unit graph; once called, topologicalSort keeps running
InitGraph == CacheIdle /\ GraphIdle /\ RegIdle /\ CallIdle

NextGraph ==
    \/ \E u \in Units : AddVertex(u)
    \/ \E u, v \in Units : AddEdge(u, v)
    \/ TopoStart
    \/ TopoWhile
    \/ TopoFor
    \/ TopoFinish
    \/ Clear

SpecGraph ==
    /\ InitGraph
    /\ [][NextGraph]_vars
    /\ WF_vars(TopoWhile)
    /\ WF_vars(TopoFor)
    /\ WF_vars(TopoFinish)

\* ---- the unit graph with vertices and edges taken out again
NextGraphEdit ==
    \/ NextGraph
    \/ \E u \in Units : RemoveVertex(u)
    \/ \E u, v \in Units : RemoveEdge(u, v)

SpecGraphEdit ==
    /\ InitGraph
    /\ [][NextGraphEdit]_vars
    /\ WF_vars(TopoWhile)
    /\ WF_vars(TopoFor)
    /\ WF_vars(TopoFinish)

\* ---- the registry while a workspace is loaded block by block
InitRegistry ==
    /\ CacheIdle /\ GraphIdle /\ FreshRepo /\ CallIdle
    /\ world \in { w \in Worlds : ~w.vendor }
    /\ cmds = 0
    /\ nreg = 0

NextRegistry ==
    \/ \E b \in Catalogue(world, metaVersion) : Register(b)
    \/ \E b \in Catalogue(world, metaVersion), yes \in BOOLEAN : deleteBlock(b, yes)
    \/ CheckStability
    \/ NewRun

SpecRegistry == InitRegistry /\ [][NextRegistry]_vars

\* ---- releases of the current block, run after run
InitRelease ==
    /\ CacheIdle /\ GraphIdle /\ FreshRepo /\ CallIdle
    /\ world \in { w \in Worlds : w.pin /\ w.ra # "b_pinned" }
    /\ cmds = 1
    /\ nreg = 0

NextRelease ==
    \/ LoadWorkspace
    \/ \E next_ver \in ReleaseInputs, dry_run \in BOOLEAN, env \in ReleaseEnvs :
           Release(next_ver, dry_run, env)

SpecRelease == InitRelease /\ [][NextRelease]_vars

\* ---- functions called on their own
InitCalls == CacheIdle /\ GraphIdle /\ RegIdle /\ CallIdle

NextCalls ==
    \/ \E files \in SUBSET Files, places \in 1..3 : StripSnapshot(files, places)
    \/ \E x, y \in CmpParts \X CmpParts \X CmpParts, vx, vy \in BOOLEAN :
            Compare(x, y, vx, vy)
    \/ \E a, b, c \in 0..MaxPart : RoundTrip(a, b, c)
    \/ \E arg \in SepInputs : Separate(arg)

SpecCalls == InitCalls /\ [][NextCalls]_vars

\* ===================================================================== claims

\* the specific versions installed on disk whose leading components are the pin k
InstalledUnder(k) ==
    { t \in Tags : cache[t] # NoVer /\ SubVer(t, Len(Split(k, "."))) = k }

C3_InstallTwiceIsNoOp ==
    [][ (op'.name = "install" /\ op'.ver \in Tags /\ cache[op'.ver] # NoVer) =>
            /\ op'.result = "already"
            /\ UNCHANGED <<cache, head, writable, lvls, status>> ]_vars

\* ---- the registry

\* the level slot a block record would take is taken
SlotTaken(inv, b) == b.lvl < VER /\ SlotsOf(inv, b)[b.lvl + 1] # None

\* C4: every level slot of a (vendor, library, name) triple holds at most one
\* record: making a second record for a taken slot fails, leaves the occupant
\* and the rest of the registry as they were, and adds nothing to the graph.
C4_OneRecordPerSlot ==
    [][ (regOp'.name = "register" /\ nreg' = nreg + 1 /\ SlotTaken(Inventory, regOp'.block)) =>
            /\ regOp'.ok = FALSE
            /\ Inventory' = Inventory
            /\ Hierarchy' = Hierarchy ]_vars

\* C4 witness: a second working copy of the current block was refused while
\* the first one holds the slot
C4_Witness ==
    /\ regOp.name = "register"
    /\ ~regOp.ok
    /\ regOp.block = BlkA_copy
    /\ SlotsOf(Inventory, BlkA_copy)[DNLD + 1] = BlkA(world, metaVersion)

\* ---- the unit graph

\* v is a dependency of u
Edge(g, u, v) == InSeq(u, MapKeys(g.adj)) /\ InSeq(v, MapGet(g.adj, u))

RECURSIVE ReachFrom(_, _)
\* the units reached from the set S along dependencies
ReachFrom(g, S) ==
    LET T == S \cup { v \in Units : \E u \in S : Edge(g, u, v) }
    IN  IF T = S THEN S ELSE ReachFrom(g, T)

HasCycle(g) == \E u, v \in Units : Edge(g, u, v) /\ u \in ReachFrom(g, {v})

\* every vertex once, and every dependency before its dependents
SortedOrder ==
    /\ Len(order) = Len(UnitHierarchy.adj)
    /\ \A u \in Units :
          InSeq(u, MapKeys(UnitHierarchy.adj)) =>
              Cardinality({ i \in 1..Len(order) : order[i] = u }) = 1
    /\ \A u, v \in Units :
          Edge(UnitHierarchy, u, v) =>
              \E i, j \in 1..Len(order) : order[i] = v /\ order[j] = u /\ i < j

\* C5 as stated: the sort of any acyclic graph, the empty one included, never
\* ends in the fatal exit, and what it returns is a full, dependency-first order.
C5_AnyAcyclicGraphIsSorted ==
    /\ tpc = "returned" => SortedOrder
    /\ tpc = "fatal" => HasCycle(UnitHierarchy)

\* C5 amended: for any acyclic graph with at least one vertex built with
\* addVertex and addEdge, topologicalSort terminates (every pass of its loop
\* finds a vertex with no dependency left and so lengthens the order, which
\* never exceeds the number of vertices) and returns an order holding every
\* vertex exactly once, every dependency before its dependents; only the
\* graph with no vertex ends in the fatal exit.
C5_NonEmptyAcyclicGraphIsSorted ==
    /\ tpc = "returned" => SortedOrder
    /\ tpc = "fatal" => Len(UnitHierarchy.adj) = 0
    /\ (tpc = "for" /\ ~HasCycle(UnitHierarchy)) =>
           \E i \in 1..Len(nghbr_cnt) : nghbr_cnt[i][2] = 0
    /\ tpc \in {"while", "for", "after"} => Len(order) <= Len(UnitHierarchy.adj)

\* C5 witness: a graph of three units with a unit that has two dependencies
\* was sorted
C5_Witness ==
    /\ tpc = "returned"
    /\ Len(order) = 3
    /\ \E u \in Units : Len(getNeighbors(UnitHierarchy, u, FALSE)) = 2

\* C6: topologicalSort on a graph with a dependency cycle ends in the fatal
\* exit.
C6_CycleEndsInFatalError ==
    (tpc = "while" /\ HasCycle(UnitHierarchy)) ~> (tpc = "fatal")

\* C7: the block order returned for a non-empty acyclic graph holds the owner
\* of every unit exactly once, and ends with the owner of the last unit of
\* the order.
C7_BlockOrderEndsWithLastOwner ==
    tpc = "returned" =>
        /\ \A u \in Units :
              InSeq(u, MapKeys(UnitHierarchy.adj)) =>
                  Cardinality({ i \in 1..Len(block_order) : block_order[i] = Owner(u) }) = 1
        /\ \A i \in 1..Len(block_order) :
              \E u \in Units : InSeq(u, MapKeys(UnitHierarchy.adj)) /\ Owner(u) = block_order[i]
        /\ block_order[Len(block_order)] = Owner(order[Len(order)])

\* C7 witness: two blocks, and the owner of the last unit also owns the first
\* unit of the order, so the loop had listed it first
C7_Witness ==
    /\ tpc = "returned"
    /\ Len(block_order) = 2
    /\ Owner(order[1]) = Owner(order[Len(order)])

\* ---- stability and release

\* the usage codes of a requirement: what stands before '-@' in its version
UsageCodes(r) ==
    LET v  == snapTitle(r).V
        at == Find(v, "@")
    IN  IF at <= 0 THEN <<>> ELSE Split(PySlice(v, 0, at - 1), "-")

\* the record a requirement is satisfied by, whatever the spelling of its
\* title: the installed record for the code 'latest', else the pinned record
\* of its version; None when the registry holds no such record
RecordFor(inv, r) ==
    LET t     == snapTitle(r)
        known == /\ InSeq(Lower(t.M), MapKeys(inv))
                 /\ InSeq(Lower(t.L), MapKeys(MapGet(inv, t.M)))
                 /\ InSeq(Lower(t.N), MapKeys(MapGet(MapGet(inv, t.M), t.L)))
        instl == MapGet(MapGet(MapGet(inv, t.M), t.L), t.N)[INSTL + 1]
        ver   == Lower(PySlice(t.V, Find(t.V, "@") + 1, Len(t.V)))
    IN  IF ~known THEN None
        ELSE IF instl = None THEN None
        ELSE IF \E i \in 1..Len(UsageCodes(r)) : Lower(UsageCodes(r)[i]) = latest THEN instl
        ELSE IF InSeq(ver, MapKeys(getInstalls(instl))) THEN MapGet(getInstalls(instl), ver)
        ELSE None

RECURSIVE AnyUnstable(_, _)
\* some requirement of the list, or of the records the list leads to, has the
\* usage code 'unstable'
AnyUnstable(inv, reqs) ==
    \E i \in 1..Len(reqs) :
        \/ \E j \in 1..Len(UsageCodes(reqs[i])) : Lower(UsageCodes(reqs[i])[j]) = unstable
        \/ /\ RecordFor(inv, reqs[i]) # None
           /\ AnyUnstable(inv, RecordFor(inv, reqs[i]).requires)

\* C8: checkStability returns false whenever a block required by the list, or
\* by the installed or pinned records the list leads to, is required as
\* 'unstable', however the block titles are spelled.
C8_UnstableIsAlwaysFound ==
    (regOp.name = "checkStability" /\ AnyUnstable(Inventory, RA(world))) => ~regOp.ok

\* the requirement r of the current block is visited by checkStability: its
\* edge in the graph is among the identifiers read from the list
Visited(r) == StripCodes(r) = SpecV(r)

\* C18: checkStability returns false, and does not raise, whenever a
\* requirement it visits cannot be resolved: its identifier is not in the
\* registry, its block has no INSTALLED record, or the pinned version it names
\* is not among the installed pins.
C18_UnresolvedRequirementIsFalse ==
    regOp.name = "checkStability" =>
        /\ regOp.ok \in BOOLEAN
        /\ (\E i \in 1..Len(RA(world)) :
                Visited(RA(world)[i]) /\ RecordFor(Inventory, RA(world)[i]) = None)
             => ~regOp.ok

\* C18 witness: the current block requires the pinned v1.0.0 of a block that
\* is installed without that pin, and checkStability returned false
C18_Witness ==
    /\ regOp.name = "checkStability"
    /\ world.ra = "b_pinned"
    /\ ~world.pin
    /\ Visited(RA(world)[1])
    /\ SlotsOf(Inventory, BlkB_I(world))[INSTL + 1] = BlkB_I(world)
    /\ ~regOp.ok

\* a release call has just been made
Released == cmds = 0 /\ cmds' = 1

\* C9: the release of a block with an unstable requirement is rejected: a real
\* run makes no commit, tag or push and leaves the version and the tag list
\* of the block as they were; a dry run that prints its report ends it with
\* FAILED.
C9_UnstableReleaseIsRejected ==
    [][ (Released /\ AnyUnstable(Inventory, RA(world))) =>
            IF rel'.dry_run
            THEN rel'.result = "dry" => rel'.report = "FAILED"
            ELSE /\ UNCHANGED <<commits, repoTags, pushes, metaVersion>>
                 /\ rel'.V = <<"v">> \o metaVersion
                 /\ rel'.tags = repoTags ]_vars

\* t is above every version of the tag list
AboveAll(t, tags) == \A i \in 1..Len(tags) : TripleLess(sepVer(tags[i]), sepVer(t))

\* C10: a release tags only a version strictly above every existing tag: an
\* explicit version that is not is rejected without commit, tag or push, a
\* major, minor or patch request always yields a version above, and so the
\* tags of a block are made in strictly increasing order.
C10_TagsStrictlyIncrease ==
    [][ /\ repoTags' # repoTags =>
              /\ Len(repoTags') = Len(repoTags) + 1
              /\ SubSeq(repoTags', 1, Len(repoTags)) = repoTags
              /\ AboveAll(repoTags'[Len(repoTags')], repoTags)
        /\ (Released /\ validVer(rel'.next_ver, {3})
                     /\ ~AboveAll(rel'.next_ver, repoTags)
                     /\ rel'.result \notin {"noperm", "novperm", "offline", "behind"}) =>
              /\ rel'.result = "rejected"
              /\ UNCHANGED <<commits, repoTags, pushes>>
        /\ (Released /\ Lower(rel'.next_ver) \in {major, minor, patch}
                     /\ rel'.result \in {"dry", "released", "crashed"}) =>
              AboveAll(rel'.V, repoTags) ]_vars

\* C10 witness: after a release, a request for a version that is not above
\* the tag was rejected
C10_Witness ==
    /\ Len(repoTags) >= 1
    /\ commits >= 1
    /\ rel.result = "rejected"
    /\ ~AboveAll(rel.next_ver, repoTags)

\* C11: a dry run of release mutates nothing: after the call the block's
\* version, its list of tagged versions and the version in its metadata, in
\* memory as on disk, are what they were before it, and nothing was committed,
\* tagged, pushed or installed.
C11_DryRunMutatesNothing ==
    [][ (Released /\ rel'.dry_run) =>
            /\ rel'.V = <<"v">> \o metaVersion
            /\ rel'.tags = repoTags
            /\ rel'.version = Tail(getHighestTaggedVersion(repoTags))
            /\ UNCHANGED <<repoTags, metaVersion, commits, pushes, cacheLatest,
                           Inventory, Hierarchy>> ]_vars

\* a check of release on permissions, reachability or synchronisation fails
\* under the answers e of the collaborators
GateFails(e, w) ==
    \/ ~e.perm
    \/ w.vendor /\ e.vndr = "noperm"
    \/ e.sync # "ok"

\* C12: release saves, commits, tags and pushes only after the checks on the
\* write permission of the block's and of the vendor's remote, on the
\* connection and on the synchronisation have passed; when one of them fails
\* it returns with none of these done.
C12_RepositoryActionsAfterChecks ==
    [][ Released =>
            /\ GateFails(rel'.env, world) =>
                  /\ rel'.result \in {"noperm", "novperm", "offline", "behind"}
                  /\ UNCHANGED <<repoTags, metaVersion, commits, pushes, cacheLatest>>
            /\ (commits' # commits \/ repoTags' # repoTags \/ pushes' # pushes) =>
                  ~GateFails(rel'.env, world) ]_vars

\* C12 witness: after a release was made, a later one found the repository
\* behind its remote and returned
C12_Witness ==
    /\ commits >= 1
    /\ rel.result = "behind"
    /\ rel.env.sync = "behind"
    /\ ~rel.dry_run

\* ---- the main installation

\* C13: install() on a DOWNLOADED or AVAILABLE record that fails (remote
\* unreachable and no local working copy, no release tag, or corrupt metadata
\* at the highest tag) returns no record, creates no cache directory, and
\* leaves a standing main installation and its pins in place.
C13_FailedInstallLeavesCache ==
    [][ (op'.name = "install_latest" /\ nops' # nops /\ op'.result # "staged") =>
            /\ op'.result \in {"unreachable", "untagged", "corrupt"}
            /\ UNCHANGED <<cache, main, lvls, instls, head, writable>> ]_vars

\* C13 witness: the AVAILABLE record of a block with a main installation and a
\* pin could not reach its remote
C13_Witness ==
    /\ op.name = "install_latest"
    /\ op.result = "unreachable"
    /\ main # NoVer
    /\ lvls[INSTL + 1]
    /\ \E k \in PinNames : cache[k] # NoVer

\* C15: a confirmed uninstall(ver) removes, for a given version, every pin
\* whose leading components are those of ver and nothing else, and for no
\* version every pin and the main installation, whose slot in the registry is
\* empty afterwards.
C15_UninstallRemovesExactly ==
    [][ (op'.name = "uninstall" /\ nops' # nops /\ op'.result = "uninstalled") =>
            IF op'.ver = NoVer
            THEN /\ \A k \in PinNames : cache'[k] = NoVer
                 /\ main' = NoVer
                 /\ ~lvls'[INSTL + 1]
            ELSE /\ \A k \in PinNames :
                        cache'[k] =
                            IF Captured(Split(k, "."),
                                        Split(stdVer(op'.ver, TRUE, FALSE, FALSE), "."))
                            THEN NoVer ELSE cache[k]
                 /\ main' = main
                 /\ lvls' = lvls ]_vars

\* ---- functions called on their own

\* a file name with a recognized source-code extension
IsSource(f) == \E e \in SRC_CODE : Lower(splitext(f)) = Tail(e)

\* C14: installPartialVersion(ver, places) with places 1 or 2 and no pin
\* standing creates a pin that is a valid block, holding the marker file and
\* besides it only files with a recognized source-code extension; every other
\* file of the snapshot is absent from the pin.
C14_PartialPinKeepsMarkerAndSources ==
    (call.name = "installPartialVersion" /\ call.places < 3) =>
        /\ call.made
        /\ MARKER \in call.pin
        /\ \A f \in call.pin \ {MARKER} : IsSource(f)
        /\ \A f \in call.files \ {MARKER} : ~IsSource(f) => f \notin call.pin

\* C19: cmpVer(x, y) returns the operand whose (major, minor, patch) is the
\* greater in lexicographic order, and y when the two are equal.
C19_CompareReturnsGreaterOrSecond ==
    call.name = "cmpVer" =>
        call.result = IF TripleLess(call.y, call.x) THEN call.lver ELSE call.rver

\* C19 witness: two texts of the same version were compared and the second
\* came back, and so did the first of two whose numbers are not in the order
\* of their texts
C19_Witness ==
    /\ call.name = "cmpVer"
    /\ \/ call.x = call.y /\ call.lver # call.rver /\ call.result = call.rver
       \/ call.x = <<1, 10, 0>> /\ call.y = <<1, 9, 10>> /\ call.result = call.lver

\* C20: for every (a, b, c) of non-negative integers, reading the text
\* vA.B.C gives (a, b, c) back, and writing that out gives the same text.
C20_FormatParseRoundTrip ==
    call.name = "sepVer" =>
        /\ call.std = call.text
        /\ call.parsed = call.triple
        /\ call.again = call.text

\* C20 witness: a version with numbers of two digits was read back
C20_Witness ==
    /\ call.name = "sepVer"
    /\ call.triple = <<10, 0, 11>>
    /\ call.parsed = <<10, 0, 11>>
    /\ call.again = VerText(10, 0, 11)


\* the usage codes of the requirements a call of installReqs was given that
\* name a specific or a partial version
PinCodes(requires) ==
    { c \in UNION { { v_ref(snapTitle(requires[i]).V)[j] :
                          j \in 1..Len(v_ref(snapTitle(requires[i]).V)) } :
                    i \in 1..Len(requires) } : Lower(c) # latest }

\* C16: when installReqs returns for a block whose requirements are all
\* resolvable in the workspace and have release tags, the required block has
\* its main installation in the cache, and every usage code that names a
\* specific or a partial version has its pin in the cache.
C16_ReturnedMeansInstalledAndPinned ==
    (op.name = "installReqs" /\ op.result = "returned" /\ ~op.unmet)
        => /\ main # NoVer
           /\ \A c \in PinCodes(op.requires) : c \in PinNames /\ cache[c] # NoVer

\* C17: a requirement that cannot be satisfied, its block being missing from
\* the workspace or the install() of its block failing, ends with a reported
\* error and installReqs returns; no exception leaves installReqs.
C17_UnmetRequirementIsReported ==
    (op.name = "installReqs" /\ op.unmet)
        => op.result = "returned" /\ op.errors > 0 /\ status = "run"

\* the components a version text writes, the 'v' left out
Components(text) ==
    IF text = <<>> THEN <<>>
    ELSE IF text[1] = "v" THEN Split(Tail(text), ".") ELSE Split(text, ".")

\* the number at position i of a version text, 0 when the text has no number there
Positional(text, i) ==
    IF i <= Len(Components(text)) /\ isdecimal(Components(text)[i])
    THEN DecVal(Components(text)[i]) ELSE 0

\* C21: sepVer is total and positional: for every input, None included, it
\* raises nothing and returns a triple holding each component of the text at
\* its own position and 0 for every missing or non-numeric component.
C21_ParseTotalAndPositional ==
    call.name = "separate"
        => /\ ~call.raised
           /\ call.result = << Positional(call.arg.text, 1), Positional(call.arg.text, 2),
                               Positional(call.arg.text, 3) >>

\* the block of a record sits at the level of that record only
Lone(inv, b) == Asks(SlotsOf(inv, b))

Named(lst) == { lst[i] : i \in 1..Len(lst) }

\* how often a list names x
Times(lst, x) == Cardinality({ i \in 1..Len(lst) : lst[i] = x })

\* C23: for every vertex v, whatever was added and removed, the upstream
\* neighbors of v are exactly the vertices u that have v among their
\* neighbors.
C23_UpstreamIsReverseOfNeighbors ==
    \A v \in Units :
        Named(getNeighbors(UnitHierarchy, v, TRUE))
            = { u \in Units : v \in Named(getNeighbors(UnitHierarchy, u, FALSE)) }

\* C24: addEdge(from, to) leaves both endpoints vertices of the graph and the
\* edge present exactly once in the forward and in the reverse list, and the
\* same call made again changes neither list.
C24_AddEdgeIsIdempotent ==
    [][ \A u, v \in Units :
          (gops' = gops + 1 /\ UnitHierarchy' = addEdge(UnitHierarchy, u, v)) =>
              /\ InSeq(u, getVertices(UnitHierarchy')) /\ InSeq(v, getVertices(UnitHierarchy'))
              /\ InSeq(u, MapKeys(UnitHierarchy'.rev)) /\ InSeq(v, MapKeys(UnitHierarchy'.rev))
              /\ Times(getNeighbors(UnitHierarchy', u, FALSE), v) = 1
              /\ Times(getNeighbors(UnitHierarchy', v, TRUE), u) = 1
              /\ addEdge(UnitHierarchy', u, v) = UnitHierarchy' ]_vars

\* C24 witness: an edge between two units that were no vertices was added,
\* and added again
C24_Witness ==
    /\ gops = 2
    /\ tpc = "build"
    /\ UnitHierarchy = addEdge(addEdge(EmptyGraph, <<"u", "1">>, <<"u", "2">>),
                               <<"u", "1">>, <<"u", "2">>)
    /\ UnitHierarchy = addEdge(EmptyGraph, <<"u", "1">>, <<"u", "2">>)

\* C25: topologicalSort on a graph with no vertex leaves its loop at the first
\* test and then takes the fatal exit, and no sort returns an empty order or
\* an empty block order.
C25_EmptyGraphEndsFatally ==
    [][ /\ tpc' = "returned" => (Len(order') > 0 /\ Len(block_order') > 0)
        /\ (Len(UnitHierarchy.adj) = 0 /\ tpc = "while") => tpc' = "after"
        /\ (Len(UnitHierarchy.adj) = 0 /\ tpc = "after") => tpc' = "fatal" ]_vars

\* C25 witness: the sort of the graph with no vertex has exited
C25_Witness ==
    /\ tpc = "fatal"
    /\ Len(UnitHierarchy.adj) = 0
    /\ order = <<>>
    /\ block_order = <<>>

\* C28: no vertex lists a unit that is not a vertex, as a neighbor or as an
\* upstream neighbor, whatever vertices were removed.
C28_RemovedVertexIsListedNowhere ==
    \A v \in Units :
        /\ Named(getNeighbors(UnitHierarchy, v, FALSE)) \subseteq Named(getVertices(UnitHierarchy))
        /\ Named(getNeighbors(UnitHierarchy, v, TRUE)) \subseteq Named(getVertices(UnitHierarchy))

\* C26: a call of installReqs made without a list starts from an empty one:
\* it skips none of its requirements for having been recorded by an earlier
\* call of the same invocation.
C26_EachCallStartsUnvisited ==
    op.name = "installReqs" => op.skipped = {}

\* C27: within one invocation, after install and uninstall calls, the map
\* getInstalls returns has exactly the pin directories of the cache as keys,
\* each with the version its directory holds.
C27_InstallsMapMatchesCache ==
    (status = "run" /\ lvls[INSTL + 1] /\ op.name \in {"install", "uninstall"})
        => /\ \A k \in PinNames : instls[k] = cache[k]
           /\ instls[latest] = NoVer

\* C29: an uninstall that does not go through (no INSTALLED record, no pin
\* captured, confirmation refused) changes nothing: not the cache, not the
\* registry slots, not the map getInstalls returns.
C29_RefusedUninstallChangesNothing ==
    [][ (op'.name = "uninstall" /\ nops' = nops + 1
            /\ op'.result \in {"notinstalled", "nothing", "cancelled"})
            => UNCHANGED <<cache, main, lvls, instls, head, writable>> ]_vars

\* C30: whenever install(ver) on the INSTALLED record returns, the files of
\* the INSTALLED copy are not writable.
C30_InstallLeavesCopyReadOnly ==
    [][ (op'.name = "install" /\ nops' = nops + 1 /\ op'.result # "crash")
            => ~writable' ]_vars

====
